---- MODULE Spec2Model ----
(***************************************************************************)
(* Session Gate (src/middleware.ts) and Authenticated Proxy                *)
(* (src/src/app/api/proxy/[...path]/route.ts) of the bookkeeping           *)
(* dashboard, as a state machine.  One request is followed at a time: the  *)
(* handlers share no state besides the module-level configuration, and     *)
(* every await of a handler is a separate step.                            *)
(***************************************************************************)
EXTENDS Integers, Sequences, FiniteSets, TLC

\* ------------------------------------------------------------------ values

\* JavaScript `undefined`: a cookie, header or JSON field that is not there.
NONE == "<undefined>"

\* JavaScript truthiness of a string-or-undefined value: !v holds for
\* undefined and for the empty string.
Falsy(v) == v \in {NONE, ""}

\* Values a `token` / `refresh_token` request cookie can have.
CookieValues == {NONE, "", "tok-old"}
RefreshCookieValues == {NONE, "", "ref-old"}

\* Response.ok: status in the range 200..299.
Ok(status) == status >= 200 /\ status <= 299

\* ------------------------------------------------------- gate: environment

\* process.env.SUPER_ADMIN_EMAILS as configured: unset, or one address.
\* (''.split(',') is [''], so the unset list is the list holding "".)
SuperAdminEnvs == { {""}, {"admin@school.com"} }

\* Answers of the verification endpoint (GET TEST_URL).  threw: fetch rejected;
\* jsonThrows: verify.json() rejected; email: userData?.user?.email.
VerifyStatuses == {200, 401, 403, 500}
VerifyEmails == {NONE, "admin@school.com", "Admin@School.com", "teacher@school.com"}
VerifyOutcomes ==
    {[threw |-> TRUE, status |-> 0, jsonThrows |-> FALSE, email |-> NONE]}
    \cup [threw : {FALSE}, status : VerifyStatuses \ {200}, jsonThrows : {FALSE}, email : {NONE}]
    \cup [threw : {FALSE}, status : {200}, jsonThrows : {TRUE}, email : {NONE}]
    \cup [threw : {FALSE}, status : {200}, jsonThrows : {FALSE}, email : VerifyEmails]

\* Answers of the refresh endpoint (POST REFRESH_URL).  isNull: the body is the
\* JSON value null (falsy); otherwise the body is an object whose access_token
\* and refresh_token fields may be missing (an error object has neither).
RefreshStatuses == {200, 401, 500}
NoTokens == [isNull |-> TRUE, access_token |-> NONE, refresh_token |-> NONE]
TokenBodies ==
    {NoTokens}
    \cup [isNull : {FALSE}, access_token : {NONE, "tok-new"},
          refresh_token : {NONE, "", "ref-new"}]
RefreshOutcomes ==
    {[threw |-> TRUE, status |-> 0, jsonThrows |-> FALSE, body |-> NoTokens]}
    \cup [threw : {FALSE}, status : RefreshStatuses, jsonThrows : {TRUE}, body : {NoTokens}]
    \cup [threw : {FALSE}, status : RefreshStatuses, jsonThrows : {FALSE}, body : TokenBodies]

\* process.env of the server: the backend URLs, each set or missing.
EnvNames == {"BACKEND_TESTING_TEST_URL", "BACKEND_TESTING_REFRESH_URL",
             "BACKEND_TESTING_API_BASE_URL", "BACKEND_TESTING_AUTH_URL",
             "BACKEND_TESTING_CREATE_USER_URL"}
EnvComplete == [n \in EnvNames |-> "https://backend.example/" \o n]
EnvEmpty == [n \in EnvNames |-> NONE]
ProcessEnvs ==
    {EnvComplete, EnvEmpty,
     [EnvComplete EXCEPT !["BACKEND_TESTING_REFRESH_URL"] = NONE]}

VARIABLES
    pc,             \* where the request being followed is
    processEnv,     \* process.env: the backend URLs
    SUPER_ADMIN_EMAILS, \* middleware.ts: the split and trimmed allow-list
    token,          \* gate: request.cookies.get("token")?.value
    refreshToken,   \* gate: request.cookies.get("refresh_token")?.value
    verifyCalls,    \* gate: fetches issued to TEST_URL
    refreshCalls,   \* gate: fetches issued to REFRESH_URL
    verify,         \* gate: the verification answer observed, if any
    refreshed,      \* gate: the refresh answer observed, if any
    gateResponse,   \* gate: the response returned by middleware()
    gates,          \* gate: the invocations of middleware() running side by side
    jar,            \* the browser's token and refresh_token cookies
    exchanges       \* the refresh_token values posted to REFRESH_URL, in order

sessionVars == <<gates, jar, exchanges>>
gateVars == <<token, refreshToken, verifyCalls, refreshCalls, verify, refreshed,
              gateResponse, sessionVars>>

NoVerify == [threw |-> FALSE, status |-> -1, jsonThrows |-> FALSE, email |-> NONE]
NoRefresh == [threw |-> FALSE, status |-> -1, jsonThrows |-> FALSE, body |-> NoTokens]
NoGateResponse ==
    [kind |-> "none", location |-> NONE, deleted |-> {}, set |-> {}, superAdmin |-> FALSE]

\* ------------------------------------------------------- gate: helpers

\* middleware.ts lines 4-5: the URLs are read from the environment as they are.
TEST_URL == processEnv["BACKEND_TESTING_TEST_URL"]
REFRESH_URL == processEnv["BACKEND_TESTING_REFRESH_URL"]

\* fetch(url) with an undefined url rejects without a request being sent.
requestsSent(url) == IF url = NONE THEN 0 ELSE 1

\* A redirect that forgets response.cookies.delete("refresh_token").
redirectToLoginKeepsRefresh ==
    [kind |-> "redirect", location |-> "/login",
     deleted |-> {"token"}, set |-> {}, superAdmin |-> FALSE]

\* redirectToLogin: a redirect to /login deleting both cookies.
redirectToLogin ==
    [kind |-> "redirect", location |-> "/login",
     deleted |-> {"token", "refresh_token"}, set |-> {}, superAdmin |-> FALSE]

\* NextResponse.next(), optionally tagged x-super-admin: true.
passThrough(marked) ==
    [kind |-> "next", location |-> NONE, deleted |-> {}, set |-> {}, superAdmin |-> marked]

\* setAuthCookies without its if (data.refresh_token) guard.
setAuthCookiesAlwaysBoth(data) ==
    {<<"token", data.access_token>>, <<"refresh_token", data.refresh_token>>}

\* setAuthCookies: the cookies set on the response from the refresh body.
setAuthCookies(data) ==
    {<<"token", data.access_token>>}
    \cup (IF Falsy(data.refresh_token) THEN {} ELSE {<<"refresh_token", data.refresh_token>>})

\* middleware line 32: userEmail && SUPER_ADMIN_EMAILS.includes(userEmail)
gateIsSuperAdmin(userEmail, allowList) ==
    ~Falsy(userEmail) /\ userEmail \in allowList

\* The refresh condition without its status test.
shouldAttemptRefreshOnAnyFailure(status, rt) == ~Falsy(rt)

\* middleware line 43: verify.status === 401 && refreshToken
shouldAttemptRefresh(status, rt) == status = 401 /\ ~Falsy(rt)

\* attemptTokenRefresh without its refreshResponse.ok test.
attemptTokenRefreshIgnoringStatus(o) ==
    IF o.threw \/ o.jsonThrows THEN NoTokens ELSE o.body

\* attemptTokenRefresh: the parsed body of an OK answer, else null.
attemptTokenRefresh(o) ==
    IF o.threw THEN NoTokens
    ELSE IF Ok(o.status)
         THEN (IF o.jsonThrows THEN NoTokens ELSE o.body)
         ELSE NoTokens

\* The gate without its missing-token test.
gateNeverLacksToken(tok) == FALSE

\* middleware line 14: if (!token)
gateLacksToken(tok) == Falsy(tok)

\* ------------------------------------------------------- gate: steps

\* middleware(), up to its first await.
middleware(tok, rt) ==
    /\ pc = "idle"
    /\ token' = tok
    /\ refreshToken' = rt
    /\ IF gateLacksToken(tok)
       THEN /\ gateResponse' = redirectToLogin
            /\ pc' = "gate_done"
            /\ UNCHANGED verifyCalls
       ELSE /\ verifyCalls' = verifyCalls + requestsSent(TEST_URL)
            /\ pc' = "verifying"
            /\ UNCHANGED gateResponse
    /\ UNCHANGED <<refreshCalls, verify, refreshed>>

\* middleware(), from the verification answer to its return or to the refresh call.
verifySettles(o) ==
    /\ pc = "verifying"
    /\ TEST_URL = NONE => o.threw
    /\ verify' = o
    /\ UNCHANGED <<token, refreshToken, verifyCalls, refreshed>>
    /\ IF o.threw
       THEN /\ gateResponse' = redirectToLogin
            /\ pc' = "gate_done"
            /\ UNCHANGED refreshCalls
       ELSE IF Ok(o.status)
       THEN /\ gateResponse' =
                 IF o.jsonThrows THEN redirectToLogin
                 ELSE passThrough(gateIsSuperAdmin(o.email, SUPER_ADMIN_EMAILS))
            /\ pc' = "gate_done"
            /\ UNCHANGED refreshCalls
       ELSE IF shouldAttemptRefresh(o.status, refreshToken)
       THEN /\ refreshCalls' = refreshCalls + requestsSent(REFRESH_URL)
            /\ pc' = "refreshing"
            /\ UNCHANGED gateResponse
       ELSE /\ gateResponse' = redirectToLogin
            /\ pc' = "gate_done"
            /\ UNCHANGED refreshCalls

\* middleware(), from the refresh answer to its return.
refreshSettles(o) ==
    /\ pc = "refreshing"
    /\ REFRESH_URL = NONE => o.threw
    /\ refreshed' = o
    /\ LET newTokens == attemptTokenRefresh(o) IN
       gateResponse' =
           IF newTokens.isNull THEN redirectToLogin
           ELSE [passThrough(FALSE) EXCEPT !.set = setAuthCookies(newTokens)]
    /\ pc' = "gate_done"
    /\ UNCHANGED <<token, refreshToken, verifyCalls, refreshCalls, verify>>

\* ------------------------------------------------ gate: a browser session

\* Requests of one browser session the gate is running for at once.
Invocations == 2

\* The cookies of a session whose access token has expired.
SessionJar == [token |-> "tok-old", refresh_token |-> "ref-old"]

\* One invocation of middleware(): where it is, the cookies its request
\* carried, the refresh answer it observed and the response it returned.
IdleGate ==
    [pc |-> "idle", token |-> NONE, refreshToken |-> NONE, refreshed |-> NoRefresh,
     response |-> NoGateResponse]

\* Answers of the verification endpoint to the session's requests.
SessionVerifyOutcomes ==
    {o \in VerifyOutcomes :
        o.threw \/ o.status \in {401, 500}
        \/ (o.status = 200 /\ ~o.jsonThrows /\ o.email = "teacher@school.com")}

\* Answers of the refresh endpoint to invocation i: each issues tokens of its own.
IssuedAccessToken == <<"tok-new-1", "tok-new-2", "tok-new-3">>
IssuedRefreshToken == <<"ref-new-1", "ref-new-2", "ref-new-3">>
SessionRefreshOutcomes(i) ==
    {[threw |-> TRUE, status |-> 0, jsonThrows |-> FALSE, body |-> NoTokens],
     [threw |-> FALSE, status |-> 401, jsonThrows |-> FALSE, body |-> NoTokens],
     [threw |-> FALSE, status |-> 200, jsonThrows |-> FALSE,
      body |-> [isNull |-> FALSE, access_token |-> IssuedAccessToken[i],
                refresh_token |-> NONE]],
     [threw |-> FALSE, status |-> 200, jsonThrows |-> FALSE,
      body |-> [isNull |-> FALSE, access_token |-> IssuedAccessToken[i],
                refresh_token |-> IssuedRefreshToken[i]]]}

\* The browser sends a request with its cookies: middleware() up to its first
\* await.
sessionRequest(i) ==
    /\ pc = "session"
    /\ gates[i].pc = "idle"
    /\ gates' = [gates EXCEPT ![i] =
                     IF gateLacksToken(jar.token)
                     THEN [@ EXCEPT !.token = jar.token, !.refreshToken = jar.refresh_token,
                                    !.response = redirectToLogin, !.pc = "gate_done"]
                     ELSE [@ EXCEPT !.token = jar.token, !.refreshToken = jar.refresh_token,
                                    !.pc = "verifying"]]
    /\ UNCHANGED <<pc, jar, exchanges>>

\* middleware() of invocation i, from the verification answer to its return or
\* to the refresh call.
sessionVerified(i, o) ==
    /\ pc = "session"
    /\ gates[i].pc = "verifying"
    /\ IF o.threw
       THEN /\ gates' = [gates EXCEPT ![i].response = redirectToLogin, ![i].pc = "gate_done"]
            /\ UNCHANGED exchanges
       ELSE IF Ok(o.status)
       THEN /\ gates' = [gates EXCEPT
                            ![i].response =
                                IF o.jsonThrows THEN redirectToLogin
                                ELSE passThrough(gateIsSuperAdmin(o.email, SUPER_ADMIN_EMAILS)),
                            ![i].pc = "gate_done"]
            /\ UNCHANGED exchanges
       ELSE IF shouldAttemptRefresh(o.status, gates[i].refreshToken)
       THEN /\ gates' = [gates EXCEPT ![i].pc = "refreshing"]
            /\ exchanges' = Append(exchanges, gates[i].refreshToken)
       ELSE /\ gates' = [gates EXCEPT ![i].response = redirectToLogin, ![i].pc = "gate_done"]
            /\ UNCHANGED exchanges
    /\ UNCHANGED <<pc, jar>>

\* middleware() of invocation i, from the refresh answer to its return.
sessionRefreshed(i, o) ==
    /\ pc = "session"
    /\ gates[i].pc = "refreshing"
    /\ gates' = [gates EXCEPT
                    ![i].refreshed = o,
                    ![i].response =
                        IF attemptTokenRefresh(o).isNull THEN redirectToLogin
                        ELSE [passThrough(FALSE) EXCEPT
                                 !.set = setAuthCookies(attemptTokenRefresh(o))],
                    ![i].pc = "gate_done"]
    /\ UNCHANGED <<pc, jar, exchanges>>

\* The value the browser keeps for the cookie name after a response.
cookieAfter(response, name, old) ==
    IF \E c \in response.set : c[1] = name
    THEN (CHOOSE c \in response.set : c[1] = name)[2]
    ELSE IF name \in response.deleted THEN NONE
    ELSE old

\* The browser receives the response of invocation i and applies its cookies.
sessionResponse(i) ==
    /\ pc = "session"
    /\ gates[i].pc = "gate_done"
    /\ jar' = [token |-> cookieAfter(gates[i].response, "token", jar.token),
               refresh_token |-> cookieAfter(gates[i].response, "refresh_token",
                                             jar.refresh_token)]
    /\ gates' = [gates EXCEPT ![i].pc = "answered"]
    /\ UNCHANGED <<pc, exchanges>>

\* ------------------------------------------------------- proxy: constants

\* route.ts line 5: the configured base URL, or the built-in one.
DefaultBackendUrl == "https://kayron-backend-testing.onrender.com/api/v1"
BACKEND_BASE_URL ==
    IF Falsy(processEnv["BACKEND_TESTING_API_BASE_URL"]) THEN DefaultBackendUrl
    ELSE processEnv["BACKEND_TESTING_API_BASE_URL"]
RequestedPath == "brands"

MAX_RETRIES == 8
INITIAL_RETRY_DELAY == 2000
MAX_TOTAL_WAIT_TIME == 60 * 60 * 1000

\* Math.min(INITIAL_RETRY_DELAY * Math.pow(2, attempt), 32000)
MaxRetryDelay == 32000
Min(a, b) == IF a < b THEN a ELSE b
\* The backoff delay without its 32 s cap.
retryDelayUncapped(att) == INITIAL_RETRY_DELAY * (2 ^ att)

retryDelay(att) == Min(INITIAL_RETRY_DELAY * (2 ^ att), MaxRetryDelay)

\* ------------------------------------------------------- proxy: environment

Methods == {"GET", "POST", "PUT", "DELETE", "PATCH"}

\* How long one backend fetch takes before it settles, in ms: at once, or slowly
\* (two slow fetches and one backoff wait exceed MAX_TOTAL_WAIT_TIME).
SlowFetchMs == 1800000
FetchDurations == {0, SlowFetchMs}

\* Answers of the backend: a rejected fetch, or a response with its status, its
\* body text and its Content-Type header.
BackendStatuses == {200, 204, 400, 401, 403, 404, 409, 500, 502, 503}
BackendBodies == {"not json", "{ \"ok\": true }"}
BackendContentTypes == {NONE, "text/html"}
BackendOutcomes ==
    {[threw |-> TRUE, status |-> 0, body |-> "", contentType |-> NONE]}
    \cup [threw : {FALSE}, status : BackendStatuses, body : BackendBodies,
          contentType : BackendContentTypes]
NoBackendRes == [threw |-> FALSE, status |-> -1, body |-> "", contentType |-> NONE]

TimeoutMessage == "Request timeout: Backend took too long (>1 hour)"
NetworkMessage == "fetch failed"
ExhaustedMessage == "Max retries exceeded"

VARIABLES
    method,         \* proxy: request.method
    fullBackendUrl, \* proxy: the URL the request is proxied to
    retryAfterPost, \* proxy: the request carries x-retry-after-post: true
    inboundHeaders, \* proxy: request.headers, by lower-cased name
    forwardedHeaders, \* proxy: the headers of fetchOptions
    attempt,        \* fetchWithRetry: the loop counter
    elapsed,        \* fetchWithRetry: Date.now() - startTime
    lastError,      \* fetchWithRetry: message of lastError, NONE for null
    fetches,        \* fetchWithRetry: backend fetches issued
    seen502,        \* fetchWithRetry: 502 answers received
    seen503,        \* fetchWithRetry: 503 answers received
    throws,         \* fetchWithRetry: backend fetches that rejected
    timeouts,       \* fetchWithRetry: attempts that began past the ceiling
    delays,         \* fetchWithRetry: the sleep(delay) calls made, in order
    backendRes,     \* handleRequest: the response fetchWithRetry returned
    proxyResponse   \* handleRequest: the response returned to the caller

retryVars == <<attempt, elapsed, lastError, fetches, seen502, seen503, throws,
               timeouts, delays>>
proxyVars == <<method, fullBackendUrl, retryAfterPost, inboundHeaders, forwardedHeaders, retryVars,
               backendRes, proxyResponse>>

\* Header names, lower-cased as the Headers class keeps them.
HeaderNames == {"authorization", "host", "content-length", "origin", "accept"}
NoHeaders == [n \in HeaderNames |-> NONE]

\* Headers an inbound request can carry: a write request that brings its own
\* Authorization header, and a bare request without one.
InboundHeaders ==
    { [NoHeaders EXCEPT !["host"] = "dashboard.example", !["content-length"] = "17",
                        !["origin"] = "https://dashboard.example",
                        !["accept"] = "application/json",
                        !["authorization"] = "Bearer forged"],
      [NoHeaders EXCEPT !["host"] = "dashboard.example",
                        !["accept"] = "text/html"] }

NoProxyResponse ==
    [kind |-> "none", status |-> 0, body |-> NONE, contentType |-> NONE,
     details |-> NONE, deleted |-> {}]

\* ------------------------------------------------------- proxy: helpers

\* NextResponse.json({error, details?}, {status}); the error text is the body.
jsonError(status, error, details) ==
    [kind |-> "json_error", status |-> status, body |-> error,
     contentType |-> "application/json", details |-> details, deleted |-> {}]

\* handleRequest lines 70-72.
authenticationRequired == jsonError(401, "Authentication required", NONE)

\* handleRequest lines 143-149.
criticalProxyFailure(message) ==
    jsonError(500, "Failed to connect to external service", message)

\* JSON.parse(responseText) succeeds.
JsonParses(text) == text \in {"{ \"ok\": true }", "{\"ok\":true}"}
\* JSON.stringify(JSON.parse(responseText)): the text NextResponse.json sends.
JsonReserialized(text) == "{\"ok\":true}"

\* The Response constructor throws a TypeError for a non-null body with a
\* null-body status.
NullBodyStatus(status) == status \in {204}
NullBodyMessage == "Response constructor: Invalid response status code 204"

Or(v, default) == IF Falsy(v) THEN default ELSE v

\* handleRequest lines 109-141: the response built from what fetchWithRetry returned.
respond(m, res) ==
    IF m = "DELETE" /\ res.status = 204
    THEN [kind |-> "empty", status |-> 204, body |-> NONE, contentType |-> NONE,
          details |-> NONE, deleted |-> {}]
    ELSE IF NullBodyStatus(res.status)
    THEN criticalProxyFailure(NullBodyMessage)
    ELSE IF ~Ok(res.status)
    THEN [kind |-> "passthrough", status |-> res.status, body |-> res.body,
          contentType |-> Or(res.contentType, "application/json"),
          details |-> NONE, deleted |-> {}]
    ELSE IF JsonParses(res.body)
    THEN [kind |-> "json", status |-> res.status, body |-> JsonReserialized(res.body),
          contentType |-> "application/json", details |-> NONE, deleted |-> {}]
    ELSE [kind |-> "passthrough", status |-> res.status, body |-> res.body,
          contentType |-> Or(res.contentType, "text/plain"),
          details |-> NONE, deleted |-> {}]

\* A retry test that takes every 5xx answer for a hibernating backend.
isHibernatingOrServerError(status) == status >= 500

\* fetchWithRetry line 37.
isHibernating(status) == status \in {502, 503}
\* The retry test comparing against MAX_RETRIES instead of MAX_RETRIES - 1.
shouldRetryResponseOffByOne(status, att) == isHibernating(status) /\ att < MAX_RETRIES

shouldRetryResponse(status, att) == isHibernating(status) /\ att < MAX_RETRIES - 1

\* The exhaustion test comparing against MAX_RETRIES instead of MAX_RETRIES - 1.
retriesExhaustedOffByOne(att) == att = MAX_RETRIES

\* fetchWithRetry line 53.
retriesExhausted(att) == att = MAX_RETRIES - 1

\* fetchWithRetry line 30.
pastCeiling(ms) == ms > MAX_TOTAL_WAIT_TIME

\* The proxy without its missing-token test.
proxyNeverLacksToken(tok) == FALSE

\* Header cleaning that keeps an Authorization header the client sent.
cleanHeadersKeepingClientAuthorization(h, tok) ==
    [n \in HeaderNames |->
        IF n = "authorization"
        THEN (IF h[n] = NONE THEN "Bearer " \o tok ELSE h[n])
        ELSE IF n \in {"host", "content-length", "origin"} THEN NONE
        ELSE h[n]]

\* handleRequest lines 80-85: a copy of the inbound headers with Authorization
\* overwritten and host, content-length and origin deleted.
cleanHeaders(h, tok) ==
    [n \in HeaderNames |->
        IF n = "authorization" THEN "Bearer " \o tok
        ELSE IF n \in {"host", "content-length", "origin"} THEN NONE
        ELSE h[n]]

\* handleRequest line 70: if (!token)
proxyLacksToken(tok) == Falsy(tok)

\* ------------------------------------------------------- proxy: steps

\* fetchWithRetry lines 50-61: the catch block of attempt att.
catchBlock(att, message) ==
    /\ lastError' = message
    /\ IF retriesExhausted(att)
       THEN /\ proxyResponse' = criticalProxyFailure(message)
            /\ pc' = "proxy_done"
            /\ UNCHANGED delays
       ELSE /\ delays' = Append(delays, retryDelay(att))
            /\ pc' = "sleeping"
            /\ UNCHANGED proxyResponse
    /\ UNCHANGED backendRes

\* fetchWithRetry lines 27-34: the loop test of attempt att and its try block up
\* to the fetch, ms after startTime.
startAttempt(att, ms) ==
    IF ~(att < MAX_RETRIES)
    THEN /\ proxyResponse' = criticalProxyFailure(Or(lastError, ExhaustedMessage))
         /\ pc' = "proxy_done"
         /\ UNCHANGED <<lastError, fetches, timeouts, delays, backendRes>>
    ELSE IF pastCeiling(ms)
    THEN /\ timeouts' = timeouts + 1
         /\ catchBlock(att, TimeoutMessage)
         /\ UNCHANGED fetches
    ELSE /\ fetches' = fetches + 1
         /\ pc' = "fetching"
         /\ UNCHANGED <<lastError, timeouts, delays, backendRes, proxyResponse>>

\* handleRequest(), up to its first await.
handleRequest(m, tok, x, h) ==
    /\ pc = "idle"
    /\ method' = m
    /\ token' = tok
    /\ retryAfterPost' = x
    /\ inboundHeaders' = h
    /\ forwardedHeaders' = IF proxyLacksToken(tok) THEN NoHeaders ELSE cleanHeaders(h, tok)
    /\ fullBackendUrl' = IF proxyLacksToken(tok) THEN NONE
                         ELSE BACKEND_BASE_URL \o "/" \o RequestedPath
    /\ UNCHANGED <<attempt, elapsed, seen502, seen503, throws>>
    /\ IF proxyLacksToken(tok)
       THEN /\ proxyResponse' = authenticationRequired
            /\ pc' = "proxy_done"
            /\ UNCHANGED <<lastError, fetches, timeouts, delays, backendRes>>
       ELSE IF m = "GET" /\ x
       THEN /\ pc' = "pre_sleep"
            /\ UNCHANGED <<lastError, fetches, timeouts, delays, backendRes, proxyResponse>>
       ELSE startAttempt(0, 0)

\* handleRequest(), after the sleep(1000) of a GET that follows a POST.
preSleepDone ==
    /\ pc = "pre_sleep"
    /\ startAttempt(0, 0)
    /\ UNCHANGED <<method, fullBackendUrl, token, retryAfterPost, inboundHeaders, forwardedHeaders,
                   attempt, elapsed, seen502, seen503, throws>>

\* fetchWithRetry, from the answer of the fetch of this attempt, d ms after it
\* was issued, to the next await or to handleRequest's return.
fetchSettles(o, d) ==
    /\ pc = "fetching"
    /\ elapsed' = elapsed + d
    /\ UNCHANGED <<method, fullBackendUrl, token, retryAfterPost, inboundHeaders, forwardedHeaders,
                   attempt, fetches>>
    /\ IF o.threw
       THEN /\ throws' = throws + 1
            /\ catchBlock(attempt, NetworkMessage)
            /\ UNCHANGED <<seen502, seen503, timeouts>>
       ELSE /\ seen502' = seen502 + (IF o.status = 502 THEN 1 ELSE 0)
            /\ seen503' = seen503 + (IF o.status = 503 THEN 1 ELSE 0)
            /\ UNCHANGED <<throws, timeouts, lastError>>
            /\ IF shouldRetryResponse(o.status, attempt)
               THEN /\ delays' = Append(delays, retryDelay(attempt))
                    /\ pc' = "sleeping"
                    /\ UNCHANGED <<backendRes, proxyResponse>>
               ELSE /\ backendRes' = o
                    /\ proxyResponse' = respond(method, o)
                    /\ pc' = "proxy_done"
                    /\ UNCHANGED delays

\* fetchWithRetry, when the sleep(delay) of this attempt is over: attempt++ and
\* the next attempt begins.
sleepDone ==
    /\ pc = "sleeping"
    /\ attempt' = attempt + 1
    /\ elapsed' = elapsed + delays[Len(delays)]
    /\ startAttempt(attempt + 1, elapsed + delays[Len(delays)])
    /\ UNCHANGED <<method, fullBackendUrl, token, retryAfterPost, inboundHeaders, forwardedHeaders,
                   seen502, seen503, throws>>

\* ------------------------------------------------------- auth: environment

\* The JSON body of a POST /auth request; unparsable stands for a body on
\* which req.json() rejects.
AuthBodies ==
    [unparsable : {FALSE}, email : {NONE, "u@x.io"}, password : {NONE, "pw"},
     name : {NONE, "Ada"}, role_code : {NONE, "TEACHER"}, isSignup : BOOLEAN]
    \cup [unparsable : {TRUE}, email : {NONE}, password : {NONE}, name : {NONE},
          role_code : {NONE}, isSignup : {FALSE}]
NoAuthBody ==
    [unparsable |-> FALSE, email |-> NONE, password |-> NONE, name |-> NONE,
     role_code |-> NONE, isSignup |-> FALSE]

\* Answers of the create-user endpoint: a rejected fetch or a status.
CreateOutcomes ==
    {[threw |-> TRUE, status |-> 0]}
    \cup [threw : {FALSE}, status : {200, 201, 400, 409, 500}]

\* Answers of the login endpoint: a rejected fetch, or a status with a body on
\* which json() rejects, which is null, or which is an object.
LoginOutcomes ==
    {[threw |-> TRUE, status |-> 0, jsonThrows |-> FALSE, body |-> NoTokens]}
    \cup [threw : {FALSE}, status : {200, 401, 403, 500}, jsonThrows : {TRUE},
          body : {NoTokens}]
    \cup [threw : {FALSE}, status : {200, 401, 403, 500}, jsonThrows : {FALSE},
          body : TokenBodies]

VARIABLES
    authBody,       \* auth: the body of the request
    authCalls,      \* auth: the backend calls made, in order
    createRes,      \* auth: the create-user answer observed, if any
    loginRes,       \* auth: the login answer observed, if any
    authResponse    \* auth: the response returned by POST

authVars == <<authBody, authCalls, createRes, loginRes, authResponse>>

NoCreateRes == [threw |-> FALSE, status |-> -1]
NoLoginRes == [threw |-> FALSE, status |-> -1, jsonThrows |-> FALSE, body |-> NoTokens]
NoAuthResponse == [kind |-> "none", status |-> 0, error |-> NONE, set |-> {}]

\* ------------------------------------------------------- auth: helpers

AUTH_URL == processEnv["BACKEND_TESTING_AUTH_URL"]
CREATE_USER_URL == processEnv["BACKEND_TESTING_CREATE_USER_URL"]

\* NextResponse.json({ error }, { status }): no cookie is set on it.
authError(status, error) ==
    [kind |-> "json_error", status |-> status, error |-> error, set |-> {}]

\* The catch block of POST.
somethingWentWrong == authError(500, "Something went wrong. Please try again.")

\* POST line 166: if (!AUTH_URL || !CREATE_USER_URL)
authEnvMissing == Falsy(AUTH_URL) \/ Falsy(CREATE_USER_URL)

\* The success response with a token cookie whatever the login body holds.
loginSuccessAlwaysSetsToken(data) ==
    [kind |-> "json", status |-> 200, error |-> NONE,
     set |-> {<<"token", data.access_token>>}
             \cup (IF Falsy(data.refresh_token) THEN {}
                   ELSE {<<"refresh_token", data.refresh_token>>})]
\* POST lines 260-300: the response built from the body of an OK login answer.
loginSuccess(data) ==
    IF data.isNull THEN somethingWentWrong
    ELSE IF Falsy(data.access_token)
    THEN authError(500, "Invalid response from authentication service")
    ELSE [kind |-> "json", status |-> 200, error |-> NONE,
          set |-> {<<"token", data.access_token>>}
                  \cup (IF Falsy(data.refresh_token) THEN {}
                        ELSE {<<"refresh_token", data.refresh_token>>})]

\* POST line 210: if (!createResponse.ok)
creationFailed(o) == ~Ok(o.status)

\* ------------------------------------------------------- auth: steps

\* POST STEP 2: the login call is made.
callLogin ==
    /\ authCalls' = Append(authCalls, "login")
    /\ pc' = "auth_login"
    /\ UNCHANGED authResponse

\* POST, up to its first fetch.
authPost(b) ==
    /\ pc = "idle"
    /\ authBody' = b
    /\ UNCHANGED <<createRes, loginRes>>
    /\ IF authEnvMissing
       THEN /\ authResponse' = authError(500, "Server configuration error. Please contact support.")
            /\ pc' = "auth_done"
            /\ UNCHANGED authCalls
       ELSE IF b.unparsable
       THEN /\ authResponse' = somethingWentWrong
            /\ pc' = "auth_done"
            /\ UNCHANGED authCalls
       ELSE IF Falsy(b.email) \/ Falsy(b.password)
       THEN /\ authResponse' = authError(400, "Email and password are required")
            /\ pc' = "auth_done"
            /\ UNCHANGED authCalls
       ELSE IF b.isSignup
       THEN IF Falsy(b.name) \/ Falsy(b.role_code)
            THEN /\ authResponse' = authError(400, "Name and role are required for registration")
                 /\ pc' = "auth_done"
                 /\ UNCHANGED authCalls
            ELSE /\ authCalls' = Append(authCalls, "create")
                 /\ pc' = "auth_create"
                 /\ UNCHANGED authResponse
       ELSE callLogin

\* POST, from the answer of the create-user call.
createSettles(o) ==
    /\ pc = "auth_create"
    /\ createRes' = o
    /\ UNCHANGED <<authBody, loginRes>>
    /\ IF o.threw
       THEN /\ authResponse' = somethingWentWrong
            /\ pc' = "auth_done"
            /\ UNCHANGED authCalls
       ELSE IF creationFailed(o)
       THEN /\ authResponse' =
                 IF o.status = 409
                 THEN authError(409, "User already exists. Please login instead.")
                 ELSE authError(o.status, "Failed to create account")
            /\ pc' = "auth_done"
            /\ UNCHANGED authCalls
       ELSE callLogin

\* POST, from the answer of the login call to its return.
loginSettles(o) ==
    /\ pc = "auth_login"
    /\ loginRes' = o
    /\ pc' = "auth_done"
    /\ UNCHANGED <<authBody, authCalls, createRes>>
    /\ authResponse' =
           IF o.threw THEN somethingWentWrong
           ELSE IF ~Ok(o.status)
           THEN (IF o.status = 401 THEN authError(401, "Invalid email or password")
                 ELSE authError(o.status, "Login failed"))
           ELSE IF o.jsonThrows THEN somethingWentWrong
           ELSE loginSuccess(o.body)

\* ------------------------------------------------------- client: strings

\* The strings of the privilege model are sequences of characters, so that
\* toLowerCase, toUpperCase, trim, startsWith, includes, split and replace are
\* computed character by character.
UpperCaseLetters == <<"A", "B", "C", "D", "E", "F", "G", "H", "I", "J", "K", "L", "M", "N", "O", "P", "Q", "R", "S", "T", "U", "V", "W", "X", "Y", "Z">>
LowerCaseLetters == <<"a", "b", "c", "d", "e", "f", "g", "h", "i", "j", "k", "l", "m", "n", "o", "p", "q", "r", "s", "t", "u", "v", "w", "x", "y", "z">>

LetterIndex(c, letters) == CHOOSE i \in 1..Len(letters) : letters[i] = c
IsLetterOf(c, letters) == \E i \in 1..Len(letters) : letters[i] = c

toLowerChar(c) ==
    IF IsLetterOf(c, UpperCaseLetters)
    THEN LowerCaseLetters[LetterIndex(c, UpperCaseLetters)] ELSE c
toUpperChar(c) ==
    IF IsLetterOf(c, LowerCaseLetters)
    THEN UpperCaseLetters[LetterIndex(c, LowerCaseLetters)] ELSE c

\* String.prototype.toLowerCase / toUpperCase.
toLowerCase(str) == [i \in 1..Len(str) |-> toLowerChar(str[i])]
toUpperCase(str) == [i \in 1..Len(str) |-> toUpperChar(str[i])]

\* String.prototype.trim.
RECURSIVE trimStart(_)
trimStart(str) ==
    IF str # <<>> /\ str[1] = " " THEN trimStart(Tail(str)) ELSE str
RECURSIVE trimEnd(_)
trimEnd(str) ==
    IF str # <<>> /\ str[Len(str)] = " " THEN trimEnd(SubSeq(str, 1, Len(str) - 1)) ELSE str
trim(str) == trimEnd(trimStart(str))

\* String.prototype.startsWith / includes.
startsWith(str, prefix) ==
    /\ Len(prefix) <= Len(str)
    /\ SubSeq(str, 1, Len(prefix)) = prefix
includes(str, part) ==
    \E i \in 1..(Len(str) + 1) :
        /\ i + Len(part) - 1 <= Len(str)
        /\ SubSeq(str, i, i + Len(part) - 1) = part

\* str.replace(/ /g, '_')
replaceSpaces(str) == [i \in 1..Len(str) |-> IF str[i] = " " THEN "_" ELSE str[i]]

\* str.split(','): the pieces between the commas, in order ('' gives ['']).
RECURSIVE splitFrom(_, _)
splitFrom(str, piece) ==
    IF str = <<>> THEN <<piece>>
    ELSE IF str[1] = "," THEN <<piece>> \o splitFrom(Tail(str), <<>>)
    ELSE splitFrom(Tail(str), Append(piece, str[1]))
splitCommas(str) == splitFrom(str, <<>>)

\* Array.prototype.includes on a list.
listIncludes(list, x) == \E i \in 1..Len(list) : list[i] = x

\* A client string that is undefined, and !str.
Undefined == <<NONE>>
Missing(str) == str = Undefined \/ str = <<>>

\* ---------------------------------------------------- client: privileges

\* A privilege record is [description, status]; a privilege map is the list of
\* its [module, privs] entries in property order (the order of Object.keys and
\* of for-in).  A status is the string "active" or "inactive" once normalized;
\* the backend may send booleans or other strings.
RawTrue == "<true>"
RawFalse == "<false>"

SUPER_ADMIN_ROLES == <<<<"S", "U", "P", "E", "R", "_", "A", "D", "M", "I", "N">>,
                       <<"A", "D", "M", "I", "N">>,
                       <<"C", "H", "A", "I", "R", "M", "A", "N">>>>

WildcardKey == <<"*">>
AllPrivileges == [description |-> <<"A", "L", "L", "_", "P", "R", "I", "V", "I", "L", "E", "G", "E", "S">>,
                  status |-> "active"]
WildcardPrivileges == <<[module |-> WildcardKey, privs |-> <<AllPrivileges>>]>>
EmptyPrivileges == <<>>

\* The list SUPER_ADMIN_EMAILS of controls.tsx, computed once from the value
\* of the environment variable (Undefined when it is not set).
controlsSuperAdminEmails(env) ==
    LET pieces == splitCommas(IF Missing(env) THEN <<>> ELSE env)
    IN [i \in 1..Len(pieces) |-> toLowerCase(trim(pieces[i]))]

isSuperAdminByEmail(email, env) ==
    listIncludes(controlsSuperAdminEmails(env), toLowerCase(email))

isSuperAdmin(roleCodes) ==
    \E i \in 1..Len(roleCodes) : listIncludes(SUPER_ADMIN_ROLES, toUpperCase(roleCodes[i]))

MODULE_TO_RESOURCE == <<
    <<<<"D", "a", "s", "h", "b", "o", "a", "r", "d">>,
      <<"d", "a", "s", "h", "b", "o", "a", "r", "d">>>>,
    <<<<"B", "r", "a", "n", "d", "s">>,
      <<"b", "r", "a", "n", "d", "s">>>>,
    <<<<"C", "a", "t", "e", "g", "o", "r", "i", "e", "s">>,
      <<"c", "a", "t", "e", "g", "o", "r", "i", "e", "s">>>>,
    <<<<"S", "u", "b", " ", "C", "a", "t", "e", "g", "o", "r", "i", "e", "s">>,
      <<"s", "u", "b", "_", "c", "a", "t", "e", "g", "o", "r", "i", "e", "s">>>>,
    <<<<"U", "O", "M">>,
      <<"u", "o", "m", "s">>>>,
    <<<<"U", "n", "i", "t", " ", "o", "f", " ", "M", "e", "a", "s", "u", "r", "e", "m", "e", "n", "t", "s">>,
      <<"u", "o", "m", "s">>>>,
    <<<<"A", "c", "a", "d", "e", "m", "i", "c", " ", "S", "e", "s", "s", "i", "o", "n", "s">>,
      <<"a", "c", "a", "d", "e", "m", "i", "c", "_", "s", "e", "s", "s", "i", "o", "n", "_", "t", "e", "r", "m", "s">>>>,
    <<<<"C", "l", "a", "s", "s", "e", "s">>,
      <<"s", "c", "h", "o", "o", "l", "_", "c", "l", "a", "s", "s", "e", "s">>>>,
    <<<<"S", "t", "u", "d", "e", "n", "t", "s">>,
      <<"s", "t", "u", "d", "e", "n", "t", "s">>>>,
    <<<<"T", "e", "a", "c", "h", "e", "r", "s">>,
      <<"c", "l", "a", "s", "s", "_", "t", "e", "a", "c", "h", "e", "r", "s">>>>,
    <<<<"I", "n", "v", "e", "n", "t", "o", "r", "y">>,
      <<"i", "n", "v", "e", "n", "t", "o", "r", "y", "_", "i", "t", "e", "m", "s">>>>,
    <<<<"I", "n", "v", "e", "n", "t", "o", "r", "y", " ", "T", "r", "a", "n", "s", "a", "c", "t", "i", "o", "n", "s">>,
      <<"i", "n", "v", "e", "n", "t", "o", "r", "y", "_", "t", "r", "a", "n", "s", "a", "c", "t", "i", "o", "n", "s">>>>,
    <<<<"I", "n", "v", "e", "n", "t", "o", "r", "y", " ", "S", "u", "m", "m", "a", "r", "y">>,
      <<"i", "n", "v", "e", "n", "t", "o", "r", "y", "_", "s", "u", "m", "m", "a", "r", "y">>>>,
    <<<<"S", "u", "p", "p", "l", "i", "e", "r", "s">>,
      <<"s", "u", "p", "p", "l", "i", "e", "r", "s">>>>,
    <<<<"S", "u", "p", "p", "l", "i", "e", "r", " ", "T", "r", "a", "n", "s", "a", "c", "t", "i", "o", "n", "s">>,
      <<"s", "u", "p", "p", "l", "i", "e", "r", "_", "t", "r", "a", "n", "s", "a", "c", "t", "i", "o", "n", "s">>>>,
    <<<<"E", "n", "t", "i", "t", "l", "e", "m", "e", "n", "t", "s">>,
      <<"c", "l", "a", "s", "s", "_", "i", "n", "v", "e", "n", "t", "o", "r", "y", "_", "e", "n", "t", "i", "t", "l", "e", "m", "e", "n", "t", "s">>>>,
    <<<<"S", "t", "u", "d", "e", "n", "t", "I", "n", "v", "e", "n", "t", "o", "r", "y", "C", "o", "l", "l", "e", "c", "t", "i", "o", "n">>,
      <<"s", "t", "u", "d", "e", "n", "t", "_", "i", "n", "v", "e", "n", "t", "o", "r", "y", "_", "c", "o", "l", "l", "e", "c", "t", "i", "o", "n">>>>,
    <<<<"S", "t", "u", "d", "e", "n", "t", " ", "I", "n", "v", "e", "n", "t", "o", "r", "y", " ", "C", "o", "l", "l", "e", "c", "t", "i", "o", "n">>,
      <<"s", "t", "u", "d", "e", "n", "t", "_", "i", "n", "v", "e", "n", "t", "o", "r", "y", "_", "c", "o", "l", "l", "e", "c", "t", "i", "o", "n">>>>,
    <<<<"D", "i", "s", "t", "r", "i", "b", "u", "t", "i", "o", "n", "s">>,
      <<"i", "n", "v", "e", "n", "t", "o", "r", "y", "_", "t", "r", "a", "n", "s", "a", "c", "t", "i", "o", "n", "s">>>>,
    <<<<"C", "o", "l", "l", "e", "c", "t", "i", "o", "n", " ", "S", "u", "m", "m", "a", "r", "y">>,
      <<"i", "n", "v", "e", "n", "t", "o", "r", "y", "_", "s", "u", "m", "m", "a", "r", "y">>>>,
    <<<<"C", "o", "l", "l", "e", "c", "t", "i", "o", "n", " ", "R", "e", "p", "o", "r", "t">>,
      <<"i", "n", "v", "e", "n", "t", "o", "r", "y", "_", "s", "u", "m", "m", "a", "r", "y">>>>,
    <<<<"U", "s", "e", "r", "s">>,
      <<"u", "s", "e", "r", "s">>>>,
    <<<<"R", "o", "l", "e", "s">>,
      <<"r", "o", "l", "e", "s">>>>,
    <<<<"R", "o", "l", "e", "M", "e", "n", "u", "s">>,
      <<"r", "o", "l", "e", "_", "m", "e", "n", "u", "s">>>>,
    <<<<"S", "t", "u", "d", "e", "n", "t", " ", "I", "n", "v", "e", "n", "t", "o", "r", "y", " ", "R", "e", "p", "o", "r", "t">>,
      <<"s", "t", "u", "d", "e", "n", "t", "_", "i", "n", "v", "e", "n", "t", "o", "r", "y", "_", "r", "e", "p", "o", "r", "t">>>>,
    <<<<"R", "o", "l", "e", " ", "M", "e", "n", "u", "s">>,
      <<"r", "o", "l", "e", "_", "m", "e", "n", "u", "s">>>>,
    <<<<"P", "r", "i", "v", "i", "l", "e", "g", "e", "s">>,
      <<"r", "o", "l", "e", "_", "p", "r", "i", "v", "i", "l", "e", "g", "e", "s">>>>,
    <<<<"R", "o", "l", "e", "P", "r", "i", "v", "i", "l", "e", "g", "e", "s">>,
      <<"r", "o", "l", "e", "_", "p", "r", "i", "v", "i", "l", "e", "g", "e", "s">>>>,
    <<<<"M", "e", "n", "u", "s">>,
      <<"m", "e", "n", "u", "s">>>>,
    <<<<"S", "e", "t", "t", "i", "n", "g", "s">>,
      <<"s", "e", "t", "t", "i", "n", "g", "s">>>> >>

ACTION_PATTERNS == <<
    [action |-> <<"r", "e", "a", "d">>,
     patterns |-> <<<<"G", "e", "t", " ", "a", "l", "l">>,
                    <<"G", "e", "t", " ", "a">>,
                    <<"G", "e", "t", " ", "a", "n">>>>],
    [action |-> <<"g", "e", "t">>,
     patterns |-> <<<<"G", "e", "t", " ", "a", "l", "l">>,
                    <<"G", "e", "t", " ", "a">>,
                    <<"G", "e", "t", " ", "a", "n">>>>],
    [action |-> <<"c", "r", "e", "a", "t", "e">>,
     patterns |-> <<<<"C", "r", "e", "a", "t", "e", " ", "a", " ", "n", "e", "w">>,
                    <<"C", "r", "e", "a", "t", "e", " ", "a", "n">>>>],
    [action |-> <<"u", "p", "d", "a", "t", "e">>,
     patterns |-> <<<<"U", "p", "d", "a", "t", "e", " ", "a">>,
                    <<"U", "p", "d", "a", "t", "e", " ", "a", "n">>>>],
    [action |-> <<"d", "e", "l", "e", "t", "e">>,
     patterns |-> <<<<"D", "e", "l", "e", "t", "e", " ", "a">>,
                    <<"D", "e", "l", "e", "t", "e", " ", "a", "n">>>>] >>

\* table[key] for a table of <<key, value>> pairs (Undefined when there is none).
lookup(table, key) ==
    IF \E i \in 1..Len(table) : table[i][1] = key
    THEN table[CHOOSE i \in 1..Len(table) : table[i][1] = key][2]
    ELSE Undefined

getResourceKey(moduleName) ==
    IF Missing(lookup(MODULE_TO_RESOURCE, moduleName))
    THEN replaceSpaces(toLowerCase(moduleName))
    ELSE lookup(MODULE_TO_RESOURCE, moduleName)

\* privileges[key] is an array, hence truthy, exactly when the key is present.
hasModule(privileges, key) == \E i \in 1..Len(privileges) : privileges[i].module = key
moduleOf(privileges, key) ==
    privileges[CHOOSE i \in 1..Len(privileges) : privileges[i].module = key].privs
setModule(privileges, key, privs) ==
    IF hasModule(privileges, key)
    THEN [i \in 1..Len(privileges) |->
             IF privileges[i].module = key THEN [module |-> key, privs |-> privs]
             ELSE privileges[i]]
    ELSE Append(privileges, [module |-> key, privs |-> privs])

\* The first key, in property order, whose lower-cased form is lowerKey.
firstScanKey(privileges, lowerKey) ==
    LET hits == {i \in 1..Len(privileges) : toLowerCase(privileges[i].module) = lowerKey}
    IN IF hits = {} THEN Undefined
       ELSE privileges[CHOOSE i \in hits : \A j \in hits : i <= j].module

\* The key findPrivilegeModule settles on (Undefined when it returns undefined).
findPrivilegeModuleKey(privileges, resourceKey) ==
    IF hasModule(privileges, resourceKey) THEN resourceKey
    ELSE IF hasModule(privileges, toUpperCase(resourceKey)) THEN toUpperCase(resourceKey)
    ELSE firstScanKey(privileges, toLowerCase(resourceKey))

roleMap == <<
    <<<<"a", "d", "m", "i", "n">>,
      <<"A", "D", "M", "I", "N">>>>,
    <<<<"s", "u", "p", "e", "r", "-", "a", "d", "m", "i", "n">>,
      <<"S", "U", "P", "E", "R", "_", "A", "D", "M", "I", "N">>>>,
    <<<<"e", "d", "i", "t", "o", "r">>,
      <<"A", "D", "M", "I", "N">>>>,
    <<<<"t", "e", "a", "c", "h", "e", "r">>,
      <<"C", "L", "A", "S", "S", "_", "T", "E", "A", "C", "H", "E", "R">>>>,
    <<<<"u", "s", "e", "r">>,
      <<"S", "T", "U", "D", "E", "N", "T", "S">>>>,
    <<<<"s", "t", "o", "r", "e", "-", "k", "e", "e", "p", "e", "r">>,
      <<"S", "T", "O", "R", "E", "_", "K", "E", "E", "P", "E", "R">>>>,
    <<<<"s", "t", "o", "r", "e", "k", "e", "e", "p", "e", "r">>,
      <<"S", "T", "O", "R", "E", "_", "K", "E", "E", "P", "E", "R">>>>,
    <<<<"s", "t", "o", "r", "e", "_", "k", "e", "e", "p", "e", "r">>,
      <<"S", "T", "O", "R", "E", "_", "K", "E", "E", "P", "E", "R">>>> >>

mapRoleToBackendCodeCaseSensitive(role) ==
    IF Missing(lookup(roleMap, role)) THEN toUpperCase(role)
    ELSE lookup(roleMap, role)
mapRoleToBackendCode(role) ==
    IF Missing(lookup(roleMap, toLowerCase(role))) THEN toUpperCase(role)
    ELSE lookup(roleMap, toLowerCase(role))

\* priv.status === true || priv.status === 'active'
isActive(status) == status = RawTrue \/ status = "active"
normalizeStatusBooleanOnly(status) == IF status = RawTrue THEN "active" ELSE "inactive"
normalizeStatus(status) == IF isActive(status) THEN "active" ELSE "inactive"

\* What one role's fetch settles with: kind "threw" (fetch rejects), "not_ok"
\* (a non-OK response), "bad_json" (response.json() rejects), "no_privileges"
\* (a body without a privileges member) or "data", whose privileges is the raw
\* map of the body.
\* A call of fetchRolePrivileges ends as [threw, privs]: given the try/catch
\* around its whole body, it never throws.
fetchRolePrivilegesUncaught(o) ==
    IF o.kind \in {"threw", "bad_json"} THEN [threw |-> TRUE, privs |-> EmptyPrivileges]
    ELSE IF o.kind \in {"not_ok", "no_privileges"} THEN [threw |-> FALSE, privs |-> EmptyPrivileges]
    ELSE [threw |-> FALSE,
          privs |-> [i \in 1..Len(o.privileges) |->
                        [module |-> o.privileges[i].module,
                         privs |-> [j \in 1..Len(o.privileges[i].privs) |->
                                       [description |-> o.privileges[i].privs[j].description,
                                        status |-> normalizeStatus(o.privileges[i].privs[j].status)]]]]]
fetchRolePrivileges(o) ==
    IF o.kind \in {"threw", "bad_json"} THEN [threw |-> FALSE, privs |-> EmptyPrivileges]
    ELSE IF o.kind \in {"not_ok", "no_privileges"} THEN [threw |-> FALSE, privs |-> EmptyPrivileges]
    ELSE [threw |-> FALSE,
          privs |-> [i \in 1..Len(o.privileges) |->
                        [module |-> o.privileges[i].module,
                         privs |-> [j \in 1..Len(o.privileges[i].privs) |->
                                       [description |-> o.privileges[i].privs[j].description,
                                        status |-> normalizeStatus(o.privileges[i].privs[j].status)]]]]]

\* merged.findIndex(e => e.description === description), 0 for -1.
findIndex(merged, description) ==
    LET hits == {i \in 1..Len(merged) : merged[i].description = description}
    IN IF hits = {} THEN 0 ELSE CHOOSE i \in hits : \A j \in hits : i <= j

\* One turn of the forEach of mergePrivileges, for the incoming record p.
mergeOneLastWins(merged, p) ==
    IF findIndex(merged, p.description) > 0
    THEN [merged EXCEPT ![findIndex(merged, p.description)].status = normalizeStatus(p.status)]
    ELSE Append(merged, [description |-> p.description, status |-> normalizeStatus(p.status)])
mergeOne(merged, p) ==
    IF findIndex(merged, p.description) > 0
    THEN IF isActive(p.status)
         THEN [merged EXCEPT ![findIndex(merged, p.description)].status = "active"]
         ELSE merged
    ELSE Append(merged, [description |-> p.description,
                         status |-> IF isActive(p.status) THEN "active" ELSE "inactive"])

RECURSIVE mergePrivileges(_, _)
mergePrivileges(existing, incoming) ==
    IF incoming = <<>> THEN existing
    ELSE mergePrivileges(mergeOne(existing, Head(incoming)), Tail(incoming))

\* The inner forEach of fetchUserPrivilegesForRoles: one role's modules, in
\* key order, into mergedPrivileges.
RECURSIVE mergeRole(_, _)
mergeRole(mergedPrivileges, rolePrivs) ==
    IF rolePrivs = <<>> THEN mergedPrivileges
    ELSE LET module == Head(rolePrivs).module
         IN mergeRole(setModule(mergedPrivileges, module,
                                IF hasModule(mergedPrivileges, module)
                                THEN mergePrivileges(moduleOf(mergedPrivileges, module),
                                                     Head(rolePrivs).privs)
                                ELSE Head(rolePrivs).privs),
                      Tail(rolePrivs))

\* The outer forEach: the roles' maps in the order of roleCodes.
RECURSIVE mergeRoles(_, _)
mergeRoles(mergedPrivileges, privilegesArray) ==
    IF privilegesArray = <<>> THEN mergedPrivileges
    ELSE mergeRoles(mergeRole(mergedPrivileges, Head(privilegesArray)),
                    Tail(privilegesArray))

\* What fetchUserPrivilegesForRoles returns once Promise.all has settled with
\* the calls' results: the catch answers {} if a call threw.
mergedResult(results) ==
    IF \E i \in 1..Len(results) : results[i].threw THEN EmptyPrivileges
    ELSE mergeRoles(EmptyPrivileges, [i \in 1..Len(results) |-> results[i].privs])

\* ACTION_PATTERNS[action.toLowerCase()]; every list of the table has entries,
\* so the empty list stands for undefined.
NoPatterns == <<>>
patternsForDefaultingToRead(action) ==
    IF \E i \in 1..Len(ACTION_PATTERNS) : ACTION_PATTERNS[i].action = toLowerCase(action)
    THEN ACTION_PATTERNS[CHOOSE i \in 1..Len(ACTION_PATTERNS) :
                             ACTION_PATTERNS[i].action = toLowerCase(action)].patterns
    ELSE ACTION_PATTERNS[1].patterns
patternsFor(action) ==
    IF \E i \in 1..Len(ACTION_PATTERNS) : ACTION_PATTERNS[i].action = toLowerCase(action)
    THEN ACTION_PATTERNS[CHOOSE i \in 1..Len(ACTION_PATTERNS) :
                             ACTION_PATTERNS[i].action = toLowerCase(action)].patterns
    ELSE NoPatterns

\* modulePrivileges.some(...) of canPerformAction.
someActiveMatch(modulePrivileges, patterns) ==
    \E i \in 1..Len(modulePrivileges) :
        /\ isActive(modulePrivileges[i].status)
        /\ \E k \in 1..Len(patterns) :
               startsWith(trim(modulePrivileges[i].description), patterns[k])

\* privs.some(...) of hasPrivilege.
someActiveIncludes(privs, privilegeDescription) ==
    \E i \in 1..Len(privs) :
        /\ includes(toLowerCase(privs[i].description), toLowerCase(privilegeDescription))
        /\ isActive(privs[i].status)

\* The privileges argument is the context's state, which is always an object:
\* the !privileges return is never taken.
canPerformActionWithoutWildcard(privileges, moduleName, action) ==
    IF findPrivilegeModuleKey(privileges, getResourceKey(moduleName)) = Undefined THEN FALSE
    ELSE IF patternsFor(action) = NoPatterns THEN FALSE
    ELSE someActiveMatch(moduleOf(privileges,
                                  findPrivilegeModuleKey(privileges, getResourceKey(moduleName))),
                         patternsFor(action))
canPerformAction(privileges, moduleName, action) ==
    IF hasModule(privileges, WildcardKey) THEN TRUE
    ELSE IF findPrivilegeModuleKey(privileges, getResourceKey(moduleName)) = Undefined THEN FALSE
    ELSE IF patternsFor(action) = NoPatterns THEN FALSE
    ELSE someActiveMatch(moduleOf(privileges,
                                  findPrivilegeModuleKey(privileges, getResourceKey(moduleName))),
                         patternsFor(action))

hasPrivilege(privileges, privilegeDescription, module) ==
    IF hasModule(privileges, WildcardKey) THEN TRUE
    ELSE IF ~Missing(module)
    THEN IF findPrivilegeModuleKey(privileges, getResourceKey(module)) = Undefined THEN FALSE
         ELSE someActiveIncludes(moduleOf(privileges,
                                          findPrivilegeModuleKey(privileges, getResourceKey(module))),
                                 privilegeDescription)
    ELSE \E i \in 1..Len(privileges) : someActiveIncludes(privileges[i].privs, privilegeDescription)

\* --------------------------------------------------- client: environment

\* Values of NEXT_PUBLIC_SUPER_ADMIN_EMAILS: not set, or two entries written
\* with blanks and capitals.
AllowListEnvs == {Undefined,
                  <<" ", "A", "@", "x", ".", "i", "o", " ", ",", "b", "@", "x", ".", "i", "o">>}

AdminEmail == <<"a", "@", "x", ".", "i", "o">>
AdminEmailCapitals == <<"A", "@", "X", ".", "I", "O">>
TeacherEmail == <<"t", "@", "x", ".", "i", "o">>
UserEmails == {Undefined, <<>>, AdminEmail, AdminEmailCapitals, TeacherEmail}

RoleAdmin == <<"A", "D", "M", "I", "N">>
RoleEditor == <<"e", "d", "i", "t", "o", "r">>
RoleChairman == <<"C", "h", "a", "i", "r", "m", "a", "n">>
RoleTeacher == <<"t", "e", "a", "c", "h", "e", "r">>
RoleStoreKeeperHyphen == <<"S", "t", "o", "r", "e", "-", "K", "e", "e", "p", "e", "r">>
RoleStoreKeeperJoined == <<"S", "T", "O", "R", "E", "K", "E", "E", "P", "E", "R">>
RoleStoreKeeperUnderscore == <<"s", "t", "o", "r", "e", "_", "k", "e", "e", "p", "e", "r">>
RoleCustodian == <<"c", "u", "s", "t", "o", "d", "i", "a", "n">>
RoleCustodianCapital == <<"C", "u", "s", "t", "o", "d", "i", "a", "n">>

\* The role lists of data.user.roles (a missing list takes the branch of the
\* empty one).
UserRoleLists ==
    {<<>>,
     <<RoleAdmin>>,
     <<RoleEditor>>,
     <<RoleTeacher, RoleChairman>>,
     <<RoleTeacher>>,
     <<RoleCustodianCapital>>,
     <<RoleStoreKeeperHyphen, RoleCustodian>>,
     <<RoleTeacher, RoleStoreKeeperJoined, RoleStoreKeeperUnderscore>>}
Users == [email : UserEmails, roles : UserRoleLists]
NoUser == [email |-> Undefined, roles |-> <<>>]

CreateBrand == <<"C", "r", "e", "a", "t", "e", " ", "a", " ", "n", "e", "w", " ", "B", "r", "a", "n", "d">>
GetBrands == <<"G", "e", "t", " ", "a", "l", "l", " ", "B", "r", "a", "n", "d", "s">>
CreateItemPadded == <<" ", "C", "r", "e", "a", "t", "e", " ", "a", "n", " ", "i", "t", "e", "m", " ">>
CreateBrandSmall == <<"c", "r", "e", "a", "t", "e", " ", "a", " ", "n", "e", "w", " ", "b", "r", "a", "n", "d">>
DeleteLog == <<"D", "e", "l", "e", "t", "e", " ", "a", " ", "l", "o", "g">>
Descriptions == {CreateBrand, GetBrands, CreateItemPadded, CreateBrandSmall, DeleteLog,
                 AllPrivileges.description}

KeyBRANDS == <<"B", "R", "A", "N", "D", "S">>
KeyBrandsSmall == <<"b", "r", "a", "n", "d", "s">>
KeySUB_CATEGORIES == <<"S", "U", "B", "_", "C", "A", "T", "E", "G", "O", "R", "I", "E", "S">>
KeyAuditLogMixed == <<"A", "u", "d", "i", "t", "_", "L", "o", "g">>
ModuleKeys == {KeyBRANDS, KeyBrandsSmall, KeySUB_CATEGORIES, KeyAuditLogMixed, WildcardKey}

Priv(description, status) == [description |-> description, status |-> status]
Entry(module, privs) == [module |-> module, privs |-> privs]

\* The raw privilege maps a role_privileges answer may carry.
RolePrivilegeMaps ==
    {<<>>,
     <<Entry(KeyBRANDS, <<Priv(CreateBrand, "inactive"), Priv(GetBrands, "active")>>)>>,
     <<Entry(KeyBRANDS, <<Priv(CreateBrand, RawTrue)>>)>>,
     <<Entry(KeyBrandsSmall, <<Priv(CreateBrandSmall, "active")>>),
       Entry(KeySUB_CATEGORIES, <<Priv(CreateItemPadded, RawTrue)>>)>>,
     <<Entry(KeyBRANDS, <<Priv(CreateBrand, RawFalse), Priv(CreateBrand, "active")>>)>>,
     <<Entry(WildcardKey, <<AllPrivileges>>),
       Entry(KeyBRANDS, <<Priv(GetBrands, "inactive")>>)>>,
     <<Entry(KeyBrandsSmall, <<>>)>>,
     <<Entry(KeyAuditLogMixed, <<Priv(DeleteLog, "ACTIVE"), Priv(GetBrands, RawTrue)>>)>>}

RoleOutcomes ==
    [kind : {"threw", "not_ok", "bad_json", "no_privileges"}, privileges : {<<>>}]
      \cup [kind : {"data"}, privileges : RolePrivilegeMaps]
Pending == [kind |-> "pending", privileges |-> <<>>]

\* The calls of the context's checkAction and checkPrivilege.
ModuleLabels == {<<"B", "r", "a", "n", "d", "s">>,
                 <<"S", "u", "b", " ", "C", "a", "t", "e", "g", "o", "r", "i", "e", "s">>,
                 <<"A", "u", "d", "i", "t", " ", "L", "o", "g">>,
                 <<"U", "O", "M">>}
Actions == {<<"c", "r", "e", "a", "t", "e">>,
            <<"r", "e", "a", "d">>,
            <<"g", "e", "t">>,
            <<"u", "p", "d", "a", "t", "e">>,
            <<"d", "e", "l", "e", "t", "e">>,
            <<"C", "R", "E", "A", "T", "E">>,
            <<"a", "p", "p", "r", "o", "v", "e">>,
            <<>>}
KnownActions == {<<"c", "r", "e", "a", "t", "e">>,
                 <<"r", "e", "a", "d">>,
                 <<"u", "p", "d", "a", "t", "e">>,
                 <<"d", "e", "l", "e", "t", "e">>,
                 <<"g", "e", "t">>}
AskedDescriptions == {<<"n", "e", "w", " ", "b", "r", "a", "n", "d">>,
                      <<"G", "e", "t", " ", "a", "l", "l">>,
                      <<"l", "o", "g">>}
AskedModules == {Undefined, <<"B", "r", "a", "n", "d", "s">>,
                 <<"A", "u", "d", "i", "t", " ", "L", "o", "g">>}

VARIABLES
    allowListEnv,      \* the value of NEXT_PUBLIC_SUPER_ADMIN_EMAILS
    user,              \* data.user of the auth/test answer
    backendRoles,      \* roles.map(mapRoleToBackendCode) of fetchPrivileges
    roleAnswers,       \* what each role's role_privileges fetch settled with
    roleFetches,       \* role_privileges fetches issued
    privileges,        \* the context's privileges state
    isSuperAdminState, \* the context's isSuperAdmin state
    decision,          \* the last answer of checkAction or checkPrivilege
    menus,             \* the context's menus state
    navMenus,          \* the menus VerticalNav last displayed
    inflight,          \* the context's calls awaiting an answer
    started,           \* calls of fetchUser and logout made so far
    emailCheck         \* an email and what the client and the gate said of it

callVars == <<inflight, started, emailCheck>>
ctxVars == <<allowListEnv, user, backendRoles, roleAnswers, roleFetches, privileges,
             isSuperAdminState, decision, menus, navMenus, callVars>>

NoDecision == [fn |-> NONE, module |-> Undefined, action |-> Undefined,
               privilege |-> Undefined, result |-> FALSE]

\* ---------------------------------------------------- client: navigation

\* nav.tsx: the privilege each menu route requires; the action is 'read' in
\* every entry.
MENU_PRIVILEGES == <<
    <<"/dashboard", <<"A", "c", "a", "d", "e", "m", "i", "c", " ", "S", "e", "s", "s", "i", "o", "n", "s">>>>,
    <<"/academic-sessions", <<"A", "c", "a", "d", "e", "m", "i", "c", " ", "S", "e", "s", "s", "i", "o", "n", "s">>>>,
    <<"/brands", <<"B", "r", "a", "n", "d", "s">>>>,
    <<"/categories", <<"C", "a", "t", "e", "g", "o", "r", "i", "e", "s">>>>,
    <<"/sub-categories", <<"S", "u", "b", " ", "C", "a", "t", "e", "g", "o", "r", "i", "e", "s">>>>,
    <<"/unit-of-measurements", <<"U", "O", "M">>>>,
    <<"/inventory-items", <<"I", "n", "v", "e", "n", "t", "o", "r", "y">>>>,
    <<"/entitlements", <<"E", "n", "t", "i", "t", "l", "e", "m", "e", "n", "t", "s">>>>,
    <<"/suppliers", <<"S", "u", "p", "p", "l", "i", "e", "r", "s">>>>,
    <<"/classes", <<"C", "l", "a", "s", "s", "e", "s">>>>,
    <<"/teachers", <<"T", "e", "a", "c", "h", "e", "r", "s">>>>,
    <<"/students", <<"S", "t", "u", "d", "e", "n", "t", "s">>>>,
    <<"/supplier-transactions", <<"S", "u", "p", "p", "l", "i", "e", "r", " ", "T", "r", "a", "n", "s", "a", "c", "t", "i", "o", "n", "s">>>>,
    <<"/student-collections", <<"S", "t", "u", "d", "e", "n", "t", " ", "I", "n", "v", "e", "n", "t", "o", "r", "y", " ", "C", "o", "l", "l", "e", "c", "t", "i", "o", "n">>>>,
    <<"/distributions", <<"D", "i", "s", "t", "r", "i", "b", "u", "t", "i", "o", "n", "s">>>>,
    <<"/collection-summary", <<"C", "o", "l", "l", "e", "c", "t", "i", "o", "n", " ", "S", "u", "m", "m", "a", "r", "y">>>>,
    <<"/collection-report", <<"C", "o", "l", "l", "e", "c", "t", "i", "o", "n", " ", "R", "e", "p", "o", "r", "t">>>>,
    <<"/users", <<"U", "s", "e", "r", "s">>>>,
    <<"/roles", <<"R", "o", "l", "e", "s">>>>,
    <<"/privileges", <<"P", "r", "i", "v", "i", "l", "e", "g", "e", "s">>>>,
    <<"/menus", <<"M", "e", "n", "u", "s">>>>,
    <<"/settings", <<"S", "e", "t", "t", "i", "n", "g", "s">>>>>>

Read == <<"r", "e", "a", "d">>

DEVELOPER_MENUS == <<
    [id |-> "dev-1", caption |-> "Academic Session", route |-> "/dashboard", order |-> 1],
    [id |-> "dev-2", caption |-> "Brands", route |-> "/brands", order |-> 2],
    [id |-> "dev-3", caption |-> "Categories", route |-> "/categories", order |-> 3],
    [id |-> "dev-4", caption |-> "Sub Categories", route |-> "/subCategories", order |-> 4],
    [id |-> "dev-5", caption |-> "Units of Measure", route |-> "/uom", order |-> 5],
    [id |-> "dev-6", caption |-> "Inventory Items", route |-> "/inventoryItem", order |-> 6],
    [id |-> "dev-7", caption |-> "Inventory Entitlement", route |-> "/classInventoryEntitlment", order |-> 7],
    [id |-> "dev-8", caption |-> "Suppliers", route |-> "/suppliers", order |-> 8],
    [id |-> "dev-9", caption |-> "Users", route |-> "/user", order |-> 9],
    [id |-> "dev-10", caption |-> "Classes", route |-> "/classes", order |-> 10],
    [id |-> "dev-11", caption |-> "Class Teachers", route |-> "/classTeachers", order |-> 11],
    [id |-> "dev-12", caption |-> "Purchase", route |-> "/transactionItem", order |-> 12],
    [id |-> "dev-13", caption |-> "Students", route |-> "/students", order |-> 13],
    [id |-> "dev-14", caption |-> "Student Collection", route |-> "/studentInventoryEntitlement", order |-> 14],
    [id |-> "dev-15", caption |-> "Inventory Distributions", route |-> "/inventoryDistrbution", order |-> 15],
    [id |-> "dev-16", caption |-> "Inventory Summary", route |-> "/inventorySummary", order |-> 16],
    [id |-> "dev-17", caption |-> "Students Report", route |-> "/studentsReport", order |-> 17],
    [id |-> "dev-18", caption |-> "Supplier Transaction", route |-> "/supplierTransaction", order |-> 18],
    [id |-> "dev-19", caption |-> "Roles", route |-> "/roles", order |-> 19],
    [id |-> "dev-20", caption |-> "Role Privileges", route |-> "/rolesPrivilage", order |-> 20],
    [id |-> "dev-21", caption |-> "Menus", route |-> "/menu", order |-> 21],
    [id |-> "dev-22", caption |-> "Role Menus", route |-> "/rolesMenu", order |-> 22]>>

\* MENU_PRIVILEGES[menu.route]: the module of the entry, Undefined without one.
menuPrivilege(route) ==
    IF \E i \in 1..Len(MENU_PRIVILEGES) : MENU_PRIVILEGES[i][1] = route
    THEN MENU_PRIVILEGES[CHOOSE i \in 1..Len(MENU_PRIVILEGES) :
                             MENU_PRIVILEGES[i][1] = route][2]
    ELSE Undefined

\* The callback of menus.filter: an unmapped route is shown, a mapped one
\* when the context's canPerformAction grants the read.
menuPasses(privs, menu) ==
    \/ menuPrivilege(menu.route) = Undefined
    \/ canPerformAction(privs, menuPrivilege(menu.route), Read)

\* The filter without its fallback to all the menus.
authorizedMenusFailClosed(serverMenus, superAdmin, privs) ==
    IF Len(serverMenus) = 0 THEN DEVELOPER_MENUS
    ELSE IF superAdmin THEN serverMenus
    ELSE SelectSeq(serverMenus, LAMBDA menu : menuPasses(privs, menu))
\* The useMemo authorizedMenus of VerticalNav.
authorizedMenus(serverMenus, superAdmin, privs) ==
    IF Len(serverMenus) = 0 THEN DEVELOPER_MENUS
    ELSE IF superAdmin THEN serverMenus
    ELSE LET filtered == SelectSeq(serverMenus, LAMBDA menu : menuPasses(privs, menu))
         IN IF Len(filtered) = 0 /\ Len(serverMenus) > 0 THEN serverMenus ELSE filtered

\* The menus the role_menus endpoint may name.
Menu(id, caption, route) == [id |-> id, caption |-> caption, route |-> route]
MenuAudit == Menu("m-9", "Audit Log", "/audit-logs")
MenuBrands == Menu("m-1", "Brands", "/brands")
MenuCategories == Menu("m-2", "Categories", "/categories")
MenuSubCategories == Menu("m-3", "Sub Categories", "/sub-categories")

\* Values of the menus state: what fetchMenus stores is free of duplicate ids
\* and sorted by caption.
ServerMenuLists ==
    {<<>>, <<MenuBrands>>, <<MenuAudit>>, <<MenuCategories>>,
     <<MenuBrands, MenuCategories>>, <<MenuAudit, MenuBrands>>,
     <<MenuBrands, MenuSubCategories>>, <<MenuAudit, MenuBrands, MenuCategories>>}

\* -------------------------------------------------------- client: steps

\* fetchUserPrivilegesForRoles up to its Promise.all: the wildcard for an
\* allow-listed email or a super-admin role code, otherwise one
\* fetchRolePrivileges call per role code.
fetchUserPrivilegesForRoles(roleCodes, userEmail) ==
    IF ~Missing(userEmail) /\ isSuperAdminByEmail(userEmail, allowListEnv)
    THEN /\ privileges' = WildcardPrivileges
         /\ pc' = "ctx_done"
         /\ UNCHANGED <<roleAnswers, roleFetches>>
    ELSE IF isSuperAdmin(roleCodes)
    THEN /\ privileges' = WildcardPrivileges
         /\ pc' = "ctx_done"
         /\ UNCHANGED <<roleAnswers, roleFetches>>
    ELSE /\ roleAnswers' = [i \in 1..Len(roleCodes) |-> Pending]
         /\ roleFetches' = roleFetches + Len(roleCodes)
         /\ pc' = "roles_pending"
         /\ UNCHANGED privileges

\* fetchPrivileges(roles, email) of the user context.
fetchPrivileges(roles, email) ==
    /\ isSuperAdminState' = isSuperAdminByEmail(email, allowListEnv)
    /\ IF isSuperAdminByEmail(email, allowListEnv)
       THEN /\ privileges' = WildcardPrivileges
            /\ pc' = "ctx_done"
            /\ UNCHANGED <<backendRoles, roleAnswers, roleFetches>>
       ELSE /\ backendRoles' = [i \in 1..Len(roles) |-> mapRoleToBackendCode(roles[i])]
            /\ fetchUserPrivilegesForRoles(
                   [i \in 1..Len(roles) |-> mapRoleToBackendCode(roles[i])], email)

\* fetchUser, when /api/proxy/auth/test has answered OK with data.user = u.
fetchUserAnswered(u) ==
    /\ pc = "ctx_idle"
    /\ user' = u
    /\ IF ~Missing(u.email) /\ isSuperAdminByEmail(u.email, allowListEnv)
       THEN /\ isSuperAdminState' = TRUE
            /\ privileges' = WildcardPrivileges
            /\ menus' = <<>>
            /\ pc' = "ctx_done"
            /\ UNCHANGED <<backendRoles, roleAnswers, roleFetches>>
       ELSE IF Len(u.roles) > 0 /\ ~Missing(u.email)
       THEN /\ fetchPrivileges(u.roles, u.email)
            /\ UNCHANGED menus
       ELSE /\ privileges' = EmptyPrivileges
            /\ menus' = <<>>
            /\ isSuperAdminState' = FALSE
            /\ pc' = "ctx_done"
            /\ UNCHANGED <<backendRoles, roleAnswers, roleFetches>>
    /\ UNCHANGED <<allowListEnv, decision, navMenus>>

\* The role_privileges fetch of role code i settles with o.  When it is the
\* last one, Promise.all resolves, the maps are merged in the order of the role
\* codes, and fetchPrivileges stores the result.
roleSettles(i, o) ==
    /\ pc = "roles_pending"
    /\ i \in 1..Len(roleAnswers)
    /\ roleAnswers[i] = Pending
    /\ roleAnswers' = [roleAnswers EXCEPT ![i] = o]
    /\ IF \A j \in 1..Len(roleAnswers) : j # i => roleAnswers[j] # Pending
       THEN /\ privileges' = mergedResult(
                   [j \in 1..Len(roleAnswers) |->
                       fetchRolePrivileges(IF j = i THEN o ELSE roleAnswers[j])])
            /\ pc' = "ctx_done"
       ELSE UNCHANGED <<privileges, pc>>
    /\ UNCHANGED <<allowListEnv, user, backendRoles, roleFetches, isSuperAdminState,
                   decision, menus, navMenus>>

\* checkAction(module, action) of the context.
checkAction(moduleName, action) ==
    /\ pc = "check_idle"
    /\ decision' = [fn |-> "canPerformAction", module |-> moduleName, action |-> action,
                    privilege |-> Undefined,
                    result |-> canPerformAction(privileges, moduleName, action)]
    /\ pc' = "checked"
    /\ UNCHANGED <<allowListEnv, user, backendRoles, roleAnswers, roleFetches, privileges,
                   isSuperAdminState, menus, navMenus>>

\* checkPrivilege(privilege, module) of the context.
checkPrivilege(privilegeDescription, module) ==
    /\ pc = "check_idle"
    /\ decision' = [fn |-> "hasPrivilege", module |-> module, action |-> Undefined,
                    privilege |-> privilegeDescription,
                    result |-> hasPrivilege(privileges, privilegeDescription, module)]
    /\ pc' = "checked"
    /\ UNCHANGED <<allowListEnv, user, backendRoles, roleAnswers, roleFetches, privileges,
                   isSuperAdminState, menus, navMenus>>

\* ------------------------------------------- the two email allow-lists

\* middleware.ts line 8: the gate's list, from the same environment value:
\* split and trimmed, the letter case kept.
gateSuperAdminEmails(env) ==
    LET pieces == splitCommas(IF Missing(env) THEN <<>> ELSE env)
    IN [i \in 1..Len(pieces) |-> trim(pieces[i])]

\* middleware.ts line 32: userEmail && SUPER_ADMIN_EMAILS.includes(userEmail)
gateMarksSuperAdmin(userEmail, env) ==
    ~Missing(userEmail) /\ listIncludes(gateSuperAdminEmails(env), userEmail)

\* Values of the allow-list variable: not set, empty, entries with blanks and
\* capitals, an entry in capitals, a list ending in a comma.
EmailEnvs ==
    AllowListEnvs
    \cup {<<>>, <<"A", "d", "m", "i", "n", "@", "X", ".", "i", "o">>,
          <<"t", "@", "x", ".", "i", "o", ",">>}

\* The emails asked about: strings, the empty one among them.
CheckedEmails ==
    {<<>>, AdminEmail, AdminEmailCapitals, TeacherEmail,
     <<"a", "d", "m", "i", "n", "@", "x", ".", "i", "o">>, <<"A", "d", "m", "i", "n", "@", "X", ".", "i", "o">>,
     <<"A", "@", "x", ".", "i", "o">>, <<"b", "@", "x", ".", "i", "o">>, <<" ", "a", "@", "x", ".", "i", "o">>}

NoEmailCheck ==
    [email |-> Undefined, clientAsked |-> FALSE, client |-> FALSE,
     gateAsked |-> FALSE, gate |-> FALSE]

\* isSuperAdminByEmail(email) is called.
clientChecksEmail ==
    /\ pc = "email"
    /\ ~emailCheck.clientAsked
    /\ emailCheck' = [emailCheck EXCEPT
                         !.clientAsked = TRUE,
                         !.client = isSuperAdminByEmail(emailCheck.email, allowListEnv)]
    /\ UNCHANGED <<pc, allowListEnv>>

\* The gate has verified a user with this email and decides on the marker.
gateChecksEmail ==
    /\ pc = "email"
    /\ ~emailCheck.gateAsked
    /\ emailCheck' = [emailCheck EXCEPT
                         !.gateAsked = TRUE,
                         !.gate = gateMarksSuperAdmin(emailCheck.email, allowListEnv)]
    /\ UNCHANGED <<pc, allowListEnv>>

\* ------------------------------------------------ client: calls in flight

\* Calls of fetchUser and logout the context is followed through.
MaxCalls == 2

\* A call awaiting an answer: fetchUser on auth/test, fetchMenus and
\* fetchPrivileges on their Promise.all, logout on /api/logout.
Task(id, op, roles, email) == [id |-> id, op |-> op, roles |-> roles, email |-> email]

\* The users auth/test may answer with.
LiveUsers ==
    {[email |-> AdminEmailCapitals, roles |-> <<RoleTeacher>>],
     [email |-> TeacherEmail, roles |-> <<RoleTeacher>>],
     [email |-> TeacherEmail, roles |-> <<RoleEditor>>],
     [email |-> TeacherEmail, roles |-> <<>>]}

\* Answers of /api/proxy/auth/test: OK with a user or without one, not OK, or
\* a rejected fetch or body.
AuthTestAnswers ==
    [kind : {"ok"}, user : LiveUsers \cup {NoUser}]
    \cup [kind : {"not_ok", "threw"}, user : {NoUser}]

\* What one role's role_menus fetch gives fetchMenus: [] for a failure, the
\* menus of the items otherwise (an item may lack its menu).
NullMenu == Menu(NONE, NONE, NONE)
RoleMenuAnswers == {<<>>, <<MenuCategories, MenuBrands>>, <<MenuBrands>>, <<NullMenu>>}

\* What one role's role_privileges fetch settles with.
LiveRoleOutcomes ==
    {o \in RoleOutcomes :
        \/ o.kind = "not_ok"
        \/ /\ o.kind = "data"
           /\ o.privileges \in
                  {<<>>, <<Entry(KeyBRANDS, <<Priv(CreateBrand, "inactive"),
                                              Priv(GetBrands, "active")>>)>>}}

\* menusArrays.flat()
RECURSIVE flat(_)
flat(arrays) == IF arrays = <<>> THEN <<>> ELSE Head(arrays) \o flat(Tail(arrays))

\* Array.from(new Map(allMenus.map(menu => [menu.id, menu])).values()): one
\* menu per id, at the place of the id's first menu, the id's last menu.
uniqueMenus(allMenus) ==
    LET firsts == {i \in 1..Len(allMenus) :
                      \A j \in 1..(i - 1) : allMenus[j].id # allMenus[i].id}
        last(i) == CHOOSE j \in 1..Len(allMenus) :
                       /\ allMenus[j].id = allMenus[i].id
                       /\ \A k \in 1..Len(allMenus) :
                              allMenus[k].id = allMenus[i].id => k <= j
        nth(n) == CHOOSE i \in firsts : Cardinality({j \in firsts : j < i}) = n - 1
    IN [n \in 1..Cardinality(firsts) |-> allMenus[last(nth(n))]]

\* The captions in the order of localeCompare.
CaptionOrder == <<"Audit Log", "Brands", "Categories", "Sub Categories">>
captionRank(caption) == CHOOSE i \in 1..Len(CaptionOrder) : CaptionOrder[i] = caption

\* uniqueMenus.sort((a, b) => a.caption.localeCompare(b.caption)), a stable sort.
RECURSIVE sortByCaption(_)
sortByCaption(list) ==
    IF list = <<>> THEN <<>>
    ELSE LET sortedFront == sortByCaption(SubSeq(list, 1, Len(list) - 1))
             m == list[Len(list)]
             before == SelectSeq(sortedFront,
                           LAMBDA x : captionRank(x.caption) <= captionRank(m.caption))
             after == SelectSeq(sortedFront,
                           LAMBDA x : captionRank(x.caption) > captionRank(m.caption))
         IN before \o <<m>> \o after

\* What fetchMenus stores from the roles' answers: [] from its catch when an
\* item has no menu (menu.id throws).
menusOf(menusArrays) ==
    IF \E i \in 1..Len(flat(menusArrays)) : flat(menusArrays)[i] = NullMenu THEN <<>>
    ELSE sortByCaption(uniqueMenus(flat(menusArrays)))

\* What fetchUserPrivilegesForRoles resolves with, given what the roles'
\* fetches settle with.
userPrivilegesForRoles(roleCodes, userEmail, outcomes) ==
    IF ~Missing(userEmail) /\ isSuperAdminByEmail(userEmail, allowListEnv)
    THEN WildcardPrivileges
    ELSE IF isSuperAdmin(roleCodes) THEN WildcardPrivileges
    ELSE mergedResult([j \in 1..Len(roleCodes) |-> fetchRolePrivileges(outcomes[j])])

\* setUser(null); setMenus([]); setPrivileges({}); setIsSuperAdmin(false)
stateCleared ==
    /\ user' = NoUser
    /\ menus' = <<>>
    /\ privileges' = EmptyPrivileges
    /\ isSuperAdminState' = FALSE

\* fetchUser (the mount effect or refreshUser) is called: auth/test is fetched.
fetchUserStarts ==
    /\ pc = "ctx_live"
    /\ started < MaxCalls
    /\ started' = started + 1
    /\ inflight' = inflight \cup {Task(started + 1, "auth_test", <<>>, Undefined)}
    /\ UNCHANGED <<pc, user, menus, privileges, isSuperAdminState>>

\* fetchUser from the answer of auth/test: to its return, or to the
\* Promise.all of fetchMenus and fetchPrivileges, each run to its first await.
authTestSettles(t, a) ==
    /\ pc = "ctx_live"
    /\ t \in inflight
    /\ t.op = "auth_test"
    /\ UNCHANGED <<pc, started>>
    /\ IF a.kind # "ok"
       THEN /\ stateCleared
            /\ inflight' = inflight \ {t}
       ELSE /\ user' = a.user
            /\ IF ~Missing(a.user.email) /\ isSuperAdminByEmail(a.user.email, allowListEnv)
               THEN /\ isSuperAdminState' = TRUE
                    /\ privileges' = WildcardPrivileges
                    /\ menus' = <<>>
                    /\ inflight' = inflight \ {t}
               ELSE IF Len(a.user.roles) > 0 /\ ~Missing(a.user.email)
               THEN /\ isSuperAdminState' = isSuperAdminByEmail(a.user.email, allowListEnv)
                    /\ inflight' = (inflight \ {t})
                           \cup {Task(t.id, "fetchMenus", a.user.roles, a.user.email),
                                 Task(t.id, "fetchPrivileges", a.user.roles, a.user.email)}
                    /\ UNCHANGED <<menus, privileges>>
               ELSE /\ menus' = <<>>
                    /\ privileges' = EmptyPrivileges
                    /\ isSuperAdminState' = FALSE
                    /\ inflight' = inflight \ {t}

\* fetchMenus from the settling of its Promise.all to setMenus.
menusSettle(t, menusArrays) ==
    /\ pc = "ctx_live"
    /\ t \in inflight
    /\ t.op = "fetchMenus"
    /\ menus' = menusOf(menusArrays)
    /\ inflight' = inflight \ {t}
    /\ UNCHANGED <<pc, started, user, privileges, isSuperAdminState>>

\* fetchPrivileges from the answer of fetchUserPrivilegesForRoles to
\* setPrivileges.
privilegesSettle(t, outcomes) ==
    /\ pc = "ctx_live"
    /\ t \in inflight
    /\ t.op = "fetchPrivileges"
    /\ privileges' = userPrivilegesForRoles(
                         [i \in 1..Len(t.roles) |-> mapRoleToBackendCode(t.roles[i])],
                         t.email, outcomes)
    /\ inflight' = inflight \ {t}
    /\ UNCHANGED <<pc, started, user, menus, isSuperAdminState>>

\* logout is called: /api/logout is fetched.
logoutStarts ==
    /\ pc = "ctx_live"
    /\ started < MaxCalls
    /\ started' = started + 1
    /\ inflight' = inflight \cup {Task(started + 1, "logout", <<>>, Undefined)}
    /\ UNCHANGED <<pc, user, menus, privileges, isSuperAdminState>>

\* logout from the answer of /api/logout: the state is reset unless the fetch
\* rejected.
logoutSettles(t, threw) ==
    /\ pc = "ctx_live"
    /\ t \in inflight
    /\ t.op = "logout"
    /\ inflight' = inflight \ {t}
    /\ IF threw THEN UNCHANGED <<user, menus, privileges, isSuperAdminState>>
       ELSE stateCleared
    /\ UNCHANGED <<pc, started>>

\* VerticalNav renders: authorizedMenus is computed from the context's state.
navRenders ==
    /\ pc = "nav_idle"
    /\ navMenus' = authorizedMenus(menus, isSuperAdminState, privileges)
    /\ pc' = "nav_done"
    /\ UNCHANGED <<allowListEnv, user, backendRoles, roleAnswers, roleFetches, privileges,
                   isSuperAdminState, decision, menus>>

\* ---------------------------------------------------------------- actions

GateRequest ==
    /\ \E tok \in CookieValues, rt \in RefreshCookieValues : middleware(tok, rt)
    /\ UNCHANGED <<processEnv, SUPER_ADMIN_EMAILS, sessionVars, proxyVars, authVars, ctxVars>>
GateVerified ==
    /\ \E o \in VerifyOutcomes : verifySettles(o)
    /\ UNCHANGED <<processEnv, SUPER_ADMIN_EMAILS, sessionVars, proxyVars, authVars, ctxVars>>
GateRefreshed ==
    /\ \E o \in RefreshOutcomes : refreshSettles(o)
    /\ UNCHANGED <<processEnv, SUPER_ADMIN_EMAILS, sessionVars, proxyVars, authVars, ctxVars>>

gateOnly == <<refreshToken, verifyCalls, refreshCalls, verify, refreshed, gateResponse,
             sessionVars>>

ProxyRequest ==
    /\ \E m \in Methods, tok \in CookieValues, x \in BOOLEAN, h \in InboundHeaders :
           handleRequest(m, tok, x, h)
    /\ UNCHANGED <<processEnv, SUPER_ADMIN_EMAILS, gateOnly, authVars, ctxVars>>
ProxyPreSleepDone ==
    /\ preSleepDone
    /\ UNCHANGED <<processEnv, SUPER_ADMIN_EMAILS, gateOnly, authVars, ctxVars>>
ProxyFetchSettles ==
    /\ \E o \in BackendOutcomes, d \in FetchDurations : fetchSettles(o, d)
    /\ UNCHANGED <<processEnv, SUPER_ADMIN_EMAILS, gateOnly, authVars, ctxVars>>
ProxySleepDone ==
    /\ sleepDone
    /\ UNCHANGED <<processEnv, SUPER_ADMIN_EMAILS, gateOnly, authVars, ctxVars>>

AuthRequest ==
    /\ \E b \in AuthBodies : authPost(b)
    /\ UNCHANGED <<processEnv, SUPER_ADMIN_EMAILS, gateVars, proxyVars, ctxVars>>
AuthCreated ==
    /\ \E o \in CreateOutcomes : createSettles(o)
    /\ UNCHANGED <<processEnv, SUPER_ADMIN_EMAILS, gateVars, proxyVars, ctxVars>>
AuthLoggedIn ==
    /\ \E o \in LoginOutcomes : loginSettles(o)
    /\ UNCHANGED <<processEnv, SUPER_ADMIN_EMAILS, gateVars, proxyVars, ctxVars>>

sessionRest == <<processEnv, SUPER_ADMIN_EMAILS, token, refreshToken, verifyCalls, refreshCalls,
                 verify, refreshed, gateResponse, proxyVars, authVars, ctxVars>>

SessionRequest ==
    /\ \E i \in 1..Invocations : sessionRequest(i)
    /\ UNCHANGED sessionRest
SessionVerified ==
    /\ \E i \in 1..Invocations, o \in SessionVerifyOutcomes : sessionVerified(i, o)
    /\ UNCHANGED sessionRest
SessionRefreshed ==
    /\ \E i \in 1..Invocations : \E o \in SessionRefreshOutcomes(i) : sessionRefreshed(i, o)
    /\ UNCHANGED sessionRest
SessionResponse ==
    /\ \E i \in 1..Invocations : sessionResponse(i)
    /\ UNCHANGED sessionRest

serverVars == <<processEnv, SUPER_ADMIN_EMAILS, gateVars, proxyVars, authVars>>

UserAnswered ==
    /\ \E u \in Users : fetchUserAnswered(u)
    /\ UNCHANGED <<serverVars, callVars>>
RoleSettled ==
    /\ \E i \in 1..Len(roleAnswers), o \in RoleOutcomes : roleSettles(i, o)
    /\ UNCHANGED <<serverVars, callVars>>
ActionChecked ==
    /\ \E moduleName \in ModuleLabels, action \in Actions : checkAction(moduleName, action)
    /\ UNCHANGED <<serverVars, callVars>>
PrivilegeChecked ==
    /\ \E d \in AskedDescriptions, module \in AskedModules : checkPrivilege(d, module)
    /\ UNCHANGED <<serverVars, callVars>>

NavRendered ==
    /\ navRenders
    /\ UNCHANGED <<serverVars, callVars>>

liveRest == <<serverVars, allowListEnv, backendRoles, roleAnswers, roleFetches, decision,
              navMenus, emailCheck>>

FetchUserStarted ==
    /\ fetchUserStarts
    /\ UNCHANGED liveRest
AuthTestSettled ==
    /\ \E t \in inflight, a \in AuthTestAnswers : authTestSettles(t, a)
    /\ UNCHANGED liveRest
MenusSettled ==
    /\ \E t \in inflight :
           \E menusArrays \in [1..Len(t.roles) -> RoleMenuAnswers] :
               menusSettle(t, menusArrays)
    /\ UNCHANGED liveRest
PrivilegesSettled ==
    /\ \E t \in inflight :
           \E outcomes \in [1..Len(t.roles) -> LiveRoleOutcomes] :
               privilegesSettle(t, outcomes)
    /\ UNCHANGED liveRest
LogoutStarted ==
    /\ logoutStarts
    /\ UNCHANGED liveRest
LogoutSettled ==
    /\ \E t \in inflight, threw \in BOOLEAN : logoutSettles(t, threw)
    /\ UNCHANGED liveRest

emailRest == <<serverVars, user, backendRoles, roleAnswers, roleFetches, privileges,
               isSuperAdminState, decision, menus, navMenus, inflight, started>>

ClientCheckedEmail ==
    /\ clientChecksEmail
    /\ UNCHANGED emailRest
GateCheckedEmail ==
    /\ gateChecksEmail
    /\ UNCHANGED emailRest

vars == <<pc, processEnv, SUPER_ADMIN_EMAILS, gateVars, proxyVars, authVars, ctxVars>>

\* No request of the gate or the proxy has been made.
ServerIdle ==
    /\ token = NONE
    /\ refreshToken = NONE
    /\ verifyCalls = 0
    /\ refreshCalls = 0
    /\ verify = NoVerify
    /\ refreshed = NoRefresh
    /\ gateResponse = NoGateResponse
    /\ gates = [i \in 1..Invocations |-> IdleGate]
    /\ jar = SessionJar
    /\ exchanges = <<>>
    /\ method = NONE
    /\ fullBackendUrl = NONE
    /\ retryAfterPost = FALSE
    /\ inboundHeaders = NoHeaders
    /\ forwardedHeaders = NoHeaders
    /\ attempt = 0
    /\ elapsed = 0
    /\ lastError = NONE
    /\ fetches = 0
    /\ seen502 = 0
    /\ seen503 = 0
    /\ throws = 0
    /\ timeouts = 0
    /\ delays = <<>>
    /\ backendRes = NoBackendRes
    /\ proxyResponse = NoProxyResponse
    /\ authBody = NoAuthBody
    /\ authCalls = <<>>
    /\ createRes = NoCreateRes
    /\ loginRes = NoLoginRes
    /\ authResponse = NoAuthResponse

\* The user context after construction: useState of part_000.
ContextIdle ==
    /\ user = NoUser
    /\ backendRoles = <<>>
    /\ roleAnswers = <<>>
    /\ roleFetches = 0
    /\ privileges = EmptyPrivileges
    /\ isSuperAdminState = FALSE
    /\ decision = NoDecision
    /\ menus = <<>>
    /\ navMenus = <<>>
    /\ inflight = {}
    /\ started = 0
    /\ emailCheck = NoEmailCheck

Init ==
    /\ pc = "idle"
    /\ processEnv = EnvComplete
    /\ SUPER_ADMIN_EMAILS \in SuperAdminEnvs
    /\ ServerIdle
    /\ allowListEnv = Undefined
    /\ ContextIdle

Next ==
    \/ GateRequest
    \/ GateVerified
    \/ GateRefreshed
    \/ ProxyRequest
    \/ ProxyPreSleepDone
    \/ ProxyFetchSettles
    \/ ProxySleepDone

Spec == Init /\ [][Next]_vars

\* Every awaited fetch settles and every timer fires.
Fairness ==
    /\ WF_vars(GateVerified)
    /\ WF_vars(GateRefreshed)
    /\ WF_vars(ProxyPreSleepDone)
    /\ WF_vars(ProxyFetchSettles)
    /\ WF_vars(ProxySleepDone)

FairSpec == Spec /\ Fairness

\* The three server components under every configuration of the backend URLs.
EnvInit ==
    /\ pc = "idle"
    /\ processEnv \in ProcessEnvs
    /\ SUPER_ADMIN_EMAILS = {""}
    /\ ServerIdle
    /\ allowListEnv = Undefined
    /\ ContextIdle

EnvNext ==
    \/ GateRequest
    \/ GateVerified
    \/ GateRefreshed
    \/ ProxyRequest
    \/ ProxyPreSleepDone
    \/ ProxyFetchSettles
    \/ ProxySleepDone
    \/ AuthRequest
    \/ AuthCreated
    \/ AuthLoggedIn

EnvSpec == EnvInit /\ [][EnvNext]_vars

\* The POST /auth handler answering one request.
AuthEnvs ==
    {EnvComplete,
     [EnvComplete EXCEPT !["BACKEND_TESTING_AUTH_URL"] = NONE],
     [EnvComplete EXCEPT !["BACKEND_TESTING_CREATE_USER_URL"] = ""],
     EnvEmpty}

AuthInit ==
    /\ pc = "idle"
    /\ processEnv \in AuthEnvs
    /\ SUPER_ADMIN_EMAILS = {""}
    /\ ServerIdle
    /\ allowListEnv = Undefined
    /\ ContextIdle

AuthNext ==
    \/ AuthRequest
    \/ AuthCreated
    \/ AuthLoggedIn

AuthSpec == AuthInit /\ [][AuthNext]_vars

\* The user context resolving one user's privileges: fetchUser from the answer
\* of auth/test to the stored privilege set.
PrivInit ==
    /\ pc = "ctx_idle"
    /\ processEnv = EnvComplete
    /\ SUPER_ADMIN_EMAILS = {""}
    /\ ServerIdle
    /\ allowListEnv \in AllowListEnvs
    /\ ContextIdle

PrivNext ==
    \/ UserAnswered
    \/ RoleSettled

PrivSpec == PrivInit /\ [][PrivNext]_vars

\* The privilege sets the checks are asked about: the wildcard set and what
\* fetchUserPrivilegesForRoles merges from the answers of up to two roles.
CheckedPrivilegeSets ==
    {WildcardPrivileges} \cup
    {mergedResult(<<fetchRolePrivileges(a), fetchRolePrivileges(b)>>) :
         a \in RoleOutcomes, b \in RoleOutcomes}

\* The context answering one check on a stored privilege set.
CheckInit ==
    /\ pc = "check_idle"
    /\ processEnv = EnvComplete
    /\ SUPER_ADMIN_EMAILS = {""}
    /\ ServerIdle
    /\ allowListEnv = Undefined
    /\ user = NoUser
    /\ backendRoles = <<>>
    /\ roleAnswers = <<>>
    /\ roleFetches = 0
    /\ privileges \in CheckedPrivilegeSets
    /\ isSuperAdminState = FALSE
    /\ decision = NoDecision
    /\ menus = <<>>
    /\ navMenus = <<>>
    /\ inflight = {}
    /\ started = 0
    /\ emailCheck = NoEmailCheck

CheckNext ==
    \/ ActionChecked
    \/ PrivilegeChecked

CheckSpec == CheckInit /\ [][CheckNext]_vars

\* VerticalNav rendering once over a state of the context.
NavInit ==
    /\ pc = "nav_idle"
    /\ processEnv = EnvComplete
    /\ SUPER_ADMIN_EMAILS = {""}
    /\ ServerIdle
    /\ allowListEnv = Undefined
    /\ user = NoUser
    /\ backendRoles = <<>>
    /\ roleAnswers = <<>>
    /\ roleFetches = 0
    /\ privileges \in CheckedPrivilegeSets
    /\ isSuperAdminState \in BOOLEAN
    /\ decision = NoDecision
    /\ menus \in ServerMenuLists
    /\ navMenus = <<>>
    /\ inflight = {}
    /\ started = 0
    /\ emailCheck = NoEmailCheck

NavNext == NavRendered

NavSpec == NavInit /\ [][NavNext]_vars

\* The gate serving the requests of one browser session side by side.
SessionInit ==
    /\ pc = "session"
    /\ processEnv = EnvComplete
    /\ SUPER_ADMIN_EMAILS \in SuperAdminEnvs
    /\ ServerIdle
    /\ allowListEnv = Undefined
    /\ ContextIdle

SessionNext ==
    \/ SessionRequest
    \/ SessionVerified
    \/ SessionRefreshed
    \/ SessionResponse

SessionSpec == SessionInit /\ [][SessionNext]_vars

\* The gate and the client deciding on one email over one allow-list value.
EmailInit ==
    /\ pc = "email"
    /\ processEnv = EnvComplete
    /\ SUPER_ADMIN_EMAILS = {""}
    /\ ServerIdle
    /\ allowListEnv \in EmailEnvs
    /\ user = NoUser
    /\ backendRoles = <<>>
    /\ roleAnswers = <<>>
    /\ roleFetches = 0
    /\ privileges = EmptyPrivileges
    /\ isSuperAdminState = FALSE
    /\ decision = NoDecision
    /\ menus = <<>>
    /\ navMenus = <<>>
    /\ inflight = {}
    /\ started = 0
    /\ emailCheck \in {[NoEmailCheck EXCEPT !.email = e] : e \in CheckedEmails}

EmailNext ==
    \/ ClientCheckedEmail
    \/ GateCheckedEmail

EmailSpec == EmailInit /\ [][EmailNext]_vars

\* The user context from its construction, its calls overlapping.
LiveInit ==
    /\ pc = "ctx_live"
    /\ processEnv = EnvComplete
    /\ SUPER_ADMIN_EMAILS = {""}
    /\ ServerIdle
    /\ allowListEnv \in AllowListEnvs
    /\ ContextIdle

LiveNext ==
    \/ FetchUserStarted
    \/ AuthTestSettled
    \/ MenusSettled
    \/ PrivilegesSettled
    \/ LogoutStarted
    \/ LogoutSettled

LiveSpec == LiveInit /\ [][LiveNext]_vars

\* ------------------------------------------------------------ properties

GatePcs == {"verifying", "refreshing", "gate_done"}
ProxyPcs == {"pre_sleep", "fetching", "sleeping", "proxy_done"}
BothCookies == {"token", "refresh_token"}

\* The gate answered with a redirect to /login that deletes both cookies.
GateRedirectedClearing ==
    /\ gateResponse.kind = "redirect"
    /\ gateResponse.location = "/login"
    /\ BothCookies \subseteq gateResponse.deleted
    /\ gateResponse.set = {}

\* C1: a navigational request without a token cookie (absent or empty) is
\* answered at once with a redirect to /login that deletes token and
\* refresh_token, and neither the verification nor the refresh endpoint is
\* called, whatever the refresh_token cookie holds.
C1_NoTokenRedirects ==
    (pc \in GatePcs /\ Falsy(token)) =>
        /\ pc = "gate_done"
        /\ GateRedirectedClearing
        /\ verifyCalls = 0
        /\ refreshCalls = 0

C1_Witness ==
    /\ pc = "gate_done"
    /\ token = NONE
    /\ refreshToken = "ref-old"
    /\ GateRedirectedClearing

\* C2: a proxied request of any method without a token cookie is answered 401
\* and no backend fetch is issued.
C2_NoTokenRejected ==
    (pc \in ProxyPcs /\ Falsy(token)) =>
        /\ pc = "proxy_done"
        /\ method \in Methods
        /\ proxyResponse.status = 401
        /\ fetches = 0
        /\ backendRes = NoBackendRes

C2_Witness ==
    /\ pc = "proxy_done"
    /\ method = "PATCH"
    /\ token = NONE
    /\ proxyResponse.status = 401

\* The verification call answered OK and its body was read.
VerifiedOk ==
    /\ verifyCalls = 1
    /\ ~verify.threw
    /\ Ok(verify.status)
    /\ ~verify.jsonThrows

\* The verification call answered 401, a refresh_token cookie was there and the
\* refresh exchange succeeded: it answered OK with a readable, non-null body.
RefreshedOk ==
    /\ verifyCalls = 1
    /\ ~verify.threw
    /\ verify.status = 401
    /\ ~Falsy(refreshToken)
    /\ refreshCalls = 1
    /\ ~refreshed.threw
    /\ Ok(refreshed.status)
    /\ ~refreshed.jsonThrows
    /\ ~refreshed.body.isNull

\* C3: the gate lets the request through exactly when the verification
\* answered OK (and its body was read), or it answered 401 with a refresh_token
\* cookie present and a successful refresh; every other outcome is a redirect
\* to /login deleting both cookies.
C3_PassOnlyWhenVerifiedOrRefreshed ==
    pc = "gate_done" =>
        /\ (gateResponse.kind = "next") <=> (VerifiedOk \/ RefreshedOk)
        /\ (gateResponse.kind # "next") => GateRedirectedClearing

C3_Witness ==
    /\ pc = "gate_done"
    /\ refreshCalls = 1
    /\ refreshed.status = 500
    /\ GateRedirectedClearing

\* C4: one gate invocation calls the verification endpoint at most once and the
\* refresh endpoint at most once; a refresh call is issued only by the step
\* that observes a verification answer with status 401, and once the refresh
\* has been answered no further call follows.
C4_RefreshOnlyAfter401 ==
    /\ verifyCalls <= 1
    /\ refreshCalls <= 1
    /\ refreshCalls = 1 =>
           /\ verifyCalls = 1
           /\ ~verify.threw
           /\ verify.status = 401
    /\ (pc = "verifying") => refreshCalls = 0
    /\ (pc = "gate_done" /\ refreshed # NoRefresh) => (verifyCalls = 1 /\ refreshCalls = 1)

C4_Witness ==
    /\ pc = "gate_done"
    /\ verifyCalls = 1
    /\ refreshCalls = 1
    /\ refreshed.threw
    /\ gateResponse.kind = "redirect"

\* The values the response sets for cookie name.
SetValues(resp, name) == {c[2] : c \in {d \in resp.set : d[1] = name}}

\* C5: after a successful refresh the pass-through response sets token to the
\* access_token of the refresh body; it sets refresh_token, to the rotated
\* value, exactly when the body carries one, and deletes no cookie; the
\* verification endpoint has been called once only.
C5_RefreshSetsCookies ==
    (pc = "gate_done" /\ refreshCalls = 1 /\ gateResponse.kind = "next") =>
        /\ SetValues(gateResponse, "token") = {refreshed.body.access_token}
        /\ SetValues(gateResponse, "refresh_token") =
               (IF Falsy(refreshed.body.refresh_token) THEN {}
                ELSE {refreshed.body.refresh_token})
        /\ gateResponse.deleted = {}
        /\ verifyCalls = 1

C5_Witness ==
    /\ pc = "gate_done"
    /\ gateResponse.kind = "next"
    /\ gateResponse.set = {<<"token", "tok-new">>}
    /\ refreshed.body.refresh_token = NONE

\* C6 as stated: the cookies are cleared whenever the gate redirects to /login
\* and whenever the proxy answers 401.
C6_Original ==
    /\ (pc = "gate_done" /\ gateResponse.kind = "redirect") =>
           BothCookies \subseteq gateResponse.deleted
    /\ (pc = "proxy_done" /\ proxyResponse.status = 401) =>
           BothCookies \subseteq proxyResponse.deleted

\* C6 (amended): the cookies are cleared whenever the gate redirects to /login,
\* and every answer of the gate that is not a pass-through is such a redirect;
\* the proxy's answers, its 401 answers included, delete no cookie.
C6_GateClearsProxyDoesNot ==
    /\ (pc = "gate_done" /\ gateResponse.kind # "next") => GateRedirectedClearing
    /\ (pc = "proxy_done") => proxyResponse.deleted = {}

C6_Witness ==
    /\ pc = "proxy_done"
    /\ proxyResponse.status = 401
    /\ backendRes.status = 401
    /\ proxyResponse.deleted = {}

\* C7: at most 8 backend fetches are issued; a 502 or 503 answer is followed
\* by a backoff wait and a further attempt exactly when fewer than 8 attempts
\* have been made; when all 8 fetches answer 502/503 the proxy answers with the
\* status and the body of the 8th.
C7_AtMostEightFetches ==
    /\ [](fetches <= 8)
    /\ [][(pc = "fetching" /\ seen502' + seen503' > seen502 + seen503) =>
              ((pc' = "sleeping") <=> (attempt + 1 < 8))]_vars
    /\ []((pc = "proxy_done" /\ seen502 + seen503 = 8) =>
              /\ fetches = 8
              /\ backendRes.status \in {502, 503}
              /\ proxyResponse.status = backendRes.status
              /\ proxyResponse.body = backendRes.body)

C7_Witness ==
    /\ pc = "proxy_done"
    /\ seen503 = 8
    /\ proxyResponse.status = 503
    /\ proxyResponse.body = "not json"

RECURSIVE SumSeq(_)
SumSeq(q) == IF q = <<>> THEN 0 ELSE q[1] + SumSeq(Tail(q))

BackoffSchedule == <<2000, 4000, 8000, 16000, 32000, 32000, 32000>>

\* C8: the k-th backoff wait of a call is 2, 4, 8, 16, 32, 32, 32 seconds for
\* k = 1..7, whichever mix of 502/503 answers and thrown errors caused the
\* retries, the k-th wait following attempt k; a call answered 503 three times
\* and then 200 returns 200 on its 4th fetch after waits of 2 s + 4 s + 8 s.
C8_BackoffSchedule ==
    /\ Len(delays) <= 7
    /\ \A k \in 1..Len(delays) : delays[k] = BackoffSchedule[k]
    /\ (pc = "sleeping") => Len(delays) = attempt + 1
    /\ (pc = "fetching") => Len(delays) = attempt
    /\ (pc \in {"sleeping", "fetching"}) =>
           Len(delays) >= seen502 + seen503 + throws
    /\ (pc = "proxy_done" /\ fetches = 4 /\ seen503 = 3 /\ backendRes.status = 200) =>
           /\ proxyResponse.status = 200
           /\ SumSeq(delays) = 14000

C8_Witness ==
    /\ pc = "proxy_done"
    /\ fetches = 4
    /\ seen503 = 3
    /\ backendRes.status = 200
    /\ delays = <<2000, 4000, 8000>>

\* A further reachable case of C8: seven waits caused by a mix of thrown
\* errors, 502 and 503 answers follow the same schedule.
C8_MixedWitness ==
    /\ pc = "sleeping"
    /\ throws = 3
    /\ seen502 = 2
    /\ seen503 = 2
    /\ delays = BackoffSchedule

\* C9 as stated: once an attempt has begun past the one-hour ceiling the call
\* has failed with the timeout error: no backend fetch, no backoff wait and no
\* further attempt follows.
C9_TimeoutFailsAtOnce ==
    timeouts > 0 =>
        /\ timeouts = 1
        /\ pc = "proxy_done"
        /\ proxyResponse.status = 500
        /\ proxyResponse.details = TimeoutMessage

\* C10: when every one of the 8 backend fetches throws, the last error is
\* re-raised after the 8th attempt with 7 waits made, and the caller gets an
\* explicit 500 answer carrying it; a finished request always has an answer;
\* and, every fetch settling and every timer firing, a request that was
\* started finishes.
C10_FailuresSurface ==
    /\ []((pc = "proxy_done" /\ throws = 8) =>
              /\ fetches = 8
              /\ Len(delays) = 7
              /\ lastError = NetworkMessage
              /\ proxyResponse.kind = "json_error"
              /\ proxyResponse.status = 500
              /\ proxyResponse.details = NetworkMessage)
    /\ []((pc = "proxy_done") => proxyResponse.kind # "none")
    /\ ((pc \in ProxyPcs) ~> (pc = "proxy_done"))

C10_Witness ==
    /\ pc = "proxy_done"
    /\ throws = 8
    /\ proxyResponse.status = 500

\* ---------------------------------------------------------- C11

\* A backend error answer that is not a hibernation answer.
HardError(status) == status >= 100 /\ ~Ok(status) /\ status \notin {502, 503}

ClientAuthorizations == {NONE, "Bearer forged", "Basic dXNlcjpwdw==", "Bearer tok-old"}

\* C12: once a request is forwarded, the forwarded Authorization header is
\* "Bearer " followed by the token cookie; the same request with any other
\* client-supplied Authorization header would be forwarded with identical
\* headers; host, content-length and origin are not forwarded, and the other
\* inbound headers are forwarded unchanged.
C12_AuthorizationFromCookieOnly ==
    (pc \in ProxyPcs /\ ~Falsy(token)) =>
        /\ forwardedHeaders["authorization"] = "Bearer " \o token
        /\ \A a \in ClientAuthorizations :
               cleanHeaders([inboundHeaders EXCEPT !["authorization"] = a], token)
                   = forwardedHeaders
        /\ \A n \in {"host", "content-length", "origin"} : forwardedHeaders[n] = NONE
        /\ forwardedHeaders["accept"] = inboundHeaders["accept"]

C12_Witness ==
    /\ pc = "fetching"
    /\ fetches = 1
    /\ inboundHeaders["authorization"] = "Bearer forged"
    /\ inboundHeaders["origin"] # NONE
    /\ forwardedHeaders["authorization"] = "Bearer tok-old"
    /\ forwardedHeaders["origin"] = NONE

\* ---------------------------------------------------------- C13

\* The roles' answers have been merged: the fan-out of per-role fetches was
\* made and every fetch has settled.
Merged == pc = "ctx_done" /\ roleFetches > 0

\* Role i's answer carries, under module key m, a record for description d
\* (an active one).
GrantedBy(i, m, d) ==
    /\ roleAnswers[i].kind = "data"
    /\ \E e \in 1..Len(roleAnswers[i].privileges) :
           /\ roleAnswers[i].privileges[e].module = m
           /\ \E r \in 1..Len(roleAnswers[i].privileges[e].privs) :
                  roleAnswers[i].privileges[e].privs[r].description = d
ActiveBy(i, m, d) ==
    /\ roleAnswers[i].kind = "data"
    /\ \E e \in 1..Len(roleAnswers[i].privileges) :
           /\ roleAnswers[i].privileges[e].module = m
           /\ \E r \in 1..Len(roleAnswers[i].privileges[e].privs) :
                  /\ roleAnswers[i].privileges[e].privs[r].description = d
                  /\ roleAnswers[i].privileges[e].privs[r].status \in {RawTrue, "active"}

\* The privilege set p has, under module key m, a record for d (an active one).
PresentIn(p, m, d) ==
    \E e \in 1..Len(p) :
        p[e].module = m /\ \E r \in 1..Len(p[e].privs) : p[e].privs[r].description = d
ActiveIn(p, m, d) ==
    \E e \in 1..Len(p) :
        /\ p[e].module = m
        /\ \E r \in 1..Len(p[e].privs) :
               p[e].privs[r].description = d /\ p[e].privs[r].status = "active"

\* The descriptions of p with their statuses, whatever the order of the records.
StatusView(p) ==
    {<<t[1], t[2], ActiveIn(p, t[1], t[2])>> :
         t \in {u \in ModuleKeys \X Descriptions : PresentIn(p, u[1], u[2])}}

Orders(n) ==
    {f \in [1..n -> 1..n] : \A a, b \in 1..n : f[a] = f[b] => a = b}

\* C13: in the set merged from the roles' answers, a description is present
\* under a module key iff some role's answer has it under that key, and it is
\* active there iff some role's record for it is active; merging the same
\* answers in any other order gives the same descriptions and statuses.
C13_ActiveDominatesOnMerge ==
    Merged =>
        /\ \A m \in ModuleKeys, d \in Descriptions :
               /\ PresentIn(privileges, m, d) <=> \E i \in 1..Len(roleAnswers) : GrantedBy(i, m, d)
               /\ ActiveIn(privileges, m, d) <=> \E i \in 1..Len(roleAnswers) : ActiveBy(i, m, d)
        /\ \A f \in Orders(Len(roleAnswers)) :
               StatusView(mergedResult([j \in 1..Len(roleAnswers) |->
                                           fetchRolePrivileges(roleAnswers[f[j]])]))
                   = StatusView(privileges)

\* An active record of the first role followed by an inactive one of the
\* second, and a description only the second role has.
C13_Witness ==
    /\ Merged
    /\ Len(roleAnswers) = 2
    /\ ActiveBy(1, KeyBRANDS, CreateBrand)
    /\ GrantedBy(2, KeyBRANDS, CreateBrand) /\ ~ActiveBy(2, KeyBRANDS, CreateBrand)
    /\ GrantedBy(2, KeyBRANDS, GetBrands) /\ ~GrantedBy(1, KeyBRANDS, GetBrands)
    /\ ActiveIn(privileges, KeyBRANDS, CreateBrand)
    /\ PresentIn(privileges, KeyBRANDS, GetBrands)

\* ---------------------------------------------------------- C14

IsData(o) == o.kind = "data"
Failed(o) == o.kind \in {"threw", "not_ok", "bad_json"}

\* The merge of the answers of the roles whose fetch gave data, in role order.
MergeOfAnswered ==
    LET answered == SelectSeq(roleAnswers, IsData)
    IN mergeRoles(EmptyPrivileges,
                  [j \in 1..Len(answered) |-> fetchRolePrivileges(answered[j]).privs])

\* C14: a role whose fetch fails contributes nothing and the stored set is the
\* merge of the other roles' answers, with every record they grant; nothing is
\* stored while a per-role fetch is still pending.
C14_FailingRoleContributesNothing ==
    /\ (pc = "roles_pending") =>
           /\ privileges = EmptyPrivileges
           /\ \E i \in 1..Len(roleAnswers) : roleAnswers[i] = Pending
    /\ Merged =>
           /\ \A i \in 1..Len(roleAnswers) : roleAnswers[i] # Pending
           /\ privileges = MergeOfAnswered
           /\ \A i \in 1..Len(roleAnswers), m \in ModuleKeys, d \in Descriptions :
                  GrantedBy(i, m, d) => PresentIn(privileges, m, d)

\* Two of three roles fail, by a rejected fetch and by an unparsable body, and
\* the third role's records are in the stored set.
C14_Witness ==
    /\ Merged
    /\ Len(roleAnswers) = 3
    /\ roleAnswers[1].kind = "bad_json"
    /\ roleAnswers[3].kind = "threw"
    /\ GrantedBy(2, KeyBRANDS, GetBrands)
    /\ ActiveIn(privileges, KeyBRANDS, GetBrands)

\* ---------------------------------------------------------- C15

\* The user's email equals, whatever the letter case, a non-empty entry of the
\* allow-list.
EmailAllowListed ==
    /\ ~Missing(user.email)
    /\ LET pieces == splitCommas(IF Missing(allowListEnv) THEN <<>> ELSE allowListEnv)
       IN \E i \in 1..Len(pieces) :
              /\ trim(pieces[i]) # <<>>
              /\ toLowerCase(trim(pieces[i])) = toLowerCase(user.email)

\* One of the user's role codes is SUPER_ADMIN, ADMIN or CHAIRMAN.
HasSuperAdminRoleCode ==
    \E i \in 1..Len(user.roles) :
        listIncludes(SUPER_ADMIN_ROLES, mapRoleToBackendCode(user.roles[i]))

\* C15: a user whose email is allow-listed, or who has a super-admin role code,
\* gets exactly the wildcard set, and no per-role privilege fetch is issued.
C15_SuperAdminGetsWildcard ==
    (pc \in {"roles_pending", "ctx_done"} /\ (EmailAllowListed \/ HasSuperAdminRoleCode)) =>
        /\ roleFetches = 0
        /\ pc = "ctx_done"
        /\ privileges = WildcardPrivileges

\* The part of C15 the code keeps: the email bypass, role list empty or not, and
\* the role bypass of a user who has an email.
C15_BypassWithEmail ==
    (pc \in {"roles_pending", "ctx_done"} /\ ~Missing(user.email)
        /\ (EmailAllowListed \/ HasSuperAdminRoleCode)) =>
        /\ roleFetches = 0
        /\ pc = "ctx_done"
        /\ privileges = WildcardPrivileges

\* ---------------------------------------------------------- C16

\* C16: in the context's privilege set, the wildcard module is the only key
\* whenever it is present.
C16_WildcardNeverCoexists ==
    (\E i \in 1..Len(privileges) : privileges[i].module = WildcardKey) =>
        \A i \in 1..Len(privileges) : privileges[i].module = WildcardKey

\* ---------------------------------------------------------- C17

HasWildcard == \E i \in 1..Len(privileges) : privileges[i].module = WildcardKey

\* C17: on a privilege set that contains the wildcard module, every check made,
\* canPerformAction for any label and action and hasPrivilege for any
\* description and module, answers true.
C17_WildcardGrantsEverything ==
    (pc = "checked" /\ HasWildcard) => decision.result = TRUE

\* A label with no resource mapping and an action with no pattern list.
C17_Witness ==
    /\ pc = "checked"
    /\ privileges = WildcardPrivileges
    /\ decision.fn = "canPerformAction"
    /\ Missing(lookup(MODULE_TO_RESOURCE, decision.module))
    /\ decision.action \notin KnownActions
    /\ decision.result = TRUE

C17_WitnessHasPrivilege ==
    /\ pc = "checked"
    /\ HasWildcard
    /\ decision.fn = "hasPrivilege"
    /\ ~Missing(decision.module)
    /\ decision.result = TRUE

\* ---------------------------------------------------------- C18

C18_CapitalsGranted ==
    /\ pc = "checked"
    /\ decision.fn = "canPerformAction"
    /\ ~HasWildcard
    /\ decision.action \notin KnownActions
    /\ decision.result = TRUE

\* ---------------------------------------------------------- C19

\* Some active record under a module key that equals the resolved resource key
\* of the label, whatever the letter case, has a trimmed description that
\* starts with one of the action's patterns.
GrantedUnderSomeMatchingKey(p, moduleName, action) ==
    \E e \in 1..Len(p) :
        /\ toLowerCase(p[e].module) = toLowerCase(getResourceKey(moduleName))
        /\ \E r \in 1..Len(p[e].privs) :
               /\ p[e].privs[r].status \in {RawTrue, "active"}
               /\ \E k \in 1..Len(patternsFor(action)) :
                      startsWith(trim(p[e].privs[r].description), patternsFor(action)[k])

MatchingKeys(p, moduleName) ==
    {e \in 1..Len(p) : toLowerCase(p[e].module) = toLowerCase(getResourceKey(moduleName))}

\* C19: on a set without the wildcard, canPerformAction answers true iff some
\* active record under a module key matching the resolved resource key
\* case-insensitively starts, once trimmed, with a pattern of the action.
C19_GrantIffMatchingActiveRecord ==
    (pc = "checked" /\ decision.fn = "canPerformAction" /\ ~HasWildcard) =>
        (decision.result <=>
             GrantedUnderSomeMatchingKey(privileges, decision.module, decision.action))

\* The part of C19 the code keeps: sets in which at most one module key
\* matches the resolved resource key.
C19_WhenOneKeyMatches ==
    (pc = "checked" /\ decision.fn = "canPerformAction" /\ ~HasWildcard
        /\ \A a, b \in MatchingKeys(privileges, decision.module) : a = b) =>
        (decision.result <=>
             GrantedUnderSomeMatchingKey(privileges, decision.module, decision.action))

C19_WhenOneKeyMatchesWitness ==
    /\ pc = "checked"
    /\ decision.fn = "canPerformAction"
    /\ ~HasWildcard
    /\ decision.module = MODULE_TO_RESOURCE[4][1]
    /\ MatchingKeys(privileges, decision.module) # {}
    /\ decision.result = TRUE

\* ---------------------------------------------------------- C20

StoreKeeperNames == {<<"s", "t", "o", "r", "e", "-", "k", "e", "e", "p", "e", "r">>,
                     <<"s", "t", "o", "r", "e", "k", "e", "e", "p", "e", "r">>,
                     <<"s", "t", "o", "r", "e", "_", "k", "e", "e", "p", "e", "r">>}
STORE_KEEPER == <<"S", "T", "O", "R", "E", "_", "K", "E", "E", "P", "E", "R">>
CUSTODIAN == <<"C", "U", "S", "T", "O", "D", "I", "A", "N">>
RoleMapKeys == {roleMap[k][1] : k \in 1..Len(roleMap)}

C20_WitnessOtherSpellings ==
    /\ pc \in {"roles_pending", "ctx_done"}
    /\ user.roles = <<RoleTeacher, RoleStoreKeeperJoined, RoleStoreKeeperUnderscore>>
    /\ Len(backendRoles) = 3
    /\ backendRoles[2] = STORE_KEEPER
    /\ backendRoles[3] = STORE_KEEPER

\* ---------------------------------------------------------- C21

\* C21: every status of a stored set is the string active or inactive;
\* normalizing the stored set once more changes no record; and the set stored
\* for a single role has, record by record, the description of the answer and
\* the status active for true and for 'active', inactive for anything else.
C21_NormalizationIdempotent ==
    Merged =>
        /\ \A e \in 1..Len(privileges) : \A r \in 1..Len(privileges[e].privs) :
               privileges[e].privs[r].status \in {"active", "inactive"}
        /\ fetchRolePrivileges([kind |-> "data", privileges |-> privileges]).privs = privileges
        /\ (Len(roleAnswers) = 1 /\ roleAnswers[1].kind = "data") =>
               /\ Len(privileges) = Len(roleAnswers[1].privileges)
               /\ \A e \in 1..Len(privileges) :
                      /\ privileges[e].module = roleAnswers[1].privileges[e].module
                      /\ Len(privileges[e].privs) = Len(roleAnswers[1].privileges[e].privs)
                      /\ \A r \in 1..Len(privileges[e].privs) :
                             /\ privileges[e].privs[r].description =
                                    roleAnswers[1].privileges[e].privs[r].description
                             /\ privileges[e].privs[r].status =
                                    IF roleAnswers[1].privileges[e].privs[r].status
                                           \in {RawTrue, "active"}
                                    THEN "active" ELSE "inactive"

\* A role's answer with the status true and the status 'ACTIVE', stored as
\* active and inactive.
C21_Witness ==
    /\ Merged
    /\ Len(roleAnswers) = 1
    /\ roleAnswers[1].kind = "data"
    /\ privileges = <<Entry(KeyAuditLogMixed,
                            <<Priv(DeleteLog, "inactive"), Priv(GetBrands, "active")>>)>>

\* ---------------------------------------------------------- C22

AuthPcs == {"auth_create", "auth_login", "auth_done"}

\* The HTTP status of a gate response: NextResponse.redirect answers 307 and
\* NextResponse.next lets the request through.
GateStatus(response) == IF response.kind = "redirect" THEN 307 ELSE 200

\* The gate went on to its refresh call.
RefreshAttempted ==
    /\ pc \in {"refreshing", "gate_done"}
    /\ ~verify.threw
    /\ verify.status = 401
    /\ ~Falsy(refreshToken)

\* C22: with a required backend URL missing, the component that needs it makes
\* no backend call and answers with a 5xx status: the gate for the
\* verification and the refresh URL, the proxy for the base URL, the auth
\* handler for the auth and the create-user URL.
C22_MissingUrlFailsFast ==
    /\ (pc \in GatePcs /\ ~Falsy(token) /\ Falsy(TEST_URL)) =>
           /\ verifyCalls = 0
           /\ pc = "gate_done" => GateStatus(gateResponse) >= 500
    /\ (RefreshAttempted /\ Falsy(REFRESH_URL)) =>
           /\ refreshCalls = 0
           /\ pc = "gate_done" => GateStatus(gateResponse) >= 500
    /\ (pc \in ProxyPcs /\ ~Falsy(token)
            /\ Falsy(processEnv["BACKEND_TESTING_API_BASE_URL"])) =>
           /\ fetches = 0
           /\ pc = "proxy_done" => proxyResponse.status >= 500
    /\ (pc \in AuthPcs /\ (Falsy(AUTH_URL) \/ Falsy(CREATE_USER_URL))) =>
           /\ authCalls = <<>>
           /\ pc = "auth_done" => authResponse.status >= 500

\* The part of C22 the code keeps: the auth handler answers 500 without a
\* backend call, and the gate sends no request to a missing URL.
C22_AuthFailsFastGateSendsNothing ==
    /\ (pc \in AuthPcs /\ (Falsy(AUTH_URL) \/ Falsy(CREATE_USER_URL))) =>
           /\ authCalls = <<>>
           /\ pc = "auth_done"
           /\ authResponse.status = 500
    /\ (pc \in GatePcs /\ Falsy(TEST_URL)) => verifyCalls = 0 /\ refreshCalls = 0
    /\ (pc \in GatePcs /\ Falsy(REFRESH_URL)) => refreshCalls = 0

\* The proxy, with its base URL missing, fetching from the built-in URL.
C22_ProxyFallsBack ==
    /\ pc = "proxy_done"
    /\ Falsy(processEnv["BACKEND_TESTING_API_BASE_URL"])
    /\ fullBackendUrl = DefaultBackendUrl \o "/" \o RequestedPath
    /\ fetches > 0
    /\ proxyResponse.status = 200

\* ---------------------------------------------------------------- C23

CookiesOf(response) == {c[1] : c \in response.set}

LoginAnsweredWithToken ==
    /\ ~loginRes.threw
    /\ Ok(loginRes.status)
    /\ ~loginRes.jsonThrows
    /\ ~loginRes.body.isNull
    /\ ~Falsy(loginRes.body.access_token)

\* C23: POST /auth sets the token cookie only on the response built after the
\* login endpoint answered OK with an access_token; every error response sets
\* no cookie; a signup calls create-user strictly before login, and login is
\* never called when the creation failed.
C23_SessionOnlyOnSuccess ==
    pc \in AuthPcs =>
        /\ authResponse.set # {} =>
               /\ pc = "auth_done"
               /\ LoginAnsweredWithToken
               /\ authResponse.status = 200
               /\ <<"token", loginRes.body.access_token>> \in authResponse.set
               /\ authCalls[Len(authCalls)] = "login"
        /\ (pc = "auth_done" /\ ~LoginAnsweredWithToken) =>
               /\ authResponse.kind = "json_error"
               /\ CookiesOf(authResponse) = {}
        /\ authCalls \in {<<>>, <<"create">>, <<"login">>, <<"create", "login">>}
        /\ authCalls = <<"create", "login">> =>
               authBody.isSignup /\ ~createRes.threw /\ Ok(createRes.status)
        /\ (authBody.isSignup /\ authCalls # <<>>) => authCalls[1] = "create"
        /\ (createRes # NoCreateRes /\ (createRes.threw \/ ~Ok(createRes.status))) =>
               authCalls = <<"create">> /\ pc = "auth_done"

\* A signup whose creation and login both succeeded: the cookies are set.
C23_Witness ==
    /\ pc = "auth_done"
    /\ authBody.isSignup
    /\ authCalls = <<"create", "login">>
    /\ createRes.status = 201
    /\ CookiesOf(authResponse) = {"token", "refresh_token"}

\* ---------------------------------------------------------------- C24

Shown(list) == {list[i] : i \in 1..Len(list)}

\* The server menus with no privilege mapping or whose module grants read.
PassingMenus ==
    {m \in Shown(menus) :
        \/ \A i \in 1..Len(MENU_PRIVILEGES) : MENU_PRIVILEGES[i][1] # m.route
        \/ \E i \in 1..Len(MENU_PRIVILEGES) :
               /\ MENU_PRIVILEGES[i][1] = m.route
               /\ canPerformAction(privileges, MENU_PRIVILEGES[i][2], Read)}

C24_WitnessFiltered ==
    /\ pc = "nav_done"
    /\ ~isSuperAdminState
    /\ menus = <<MenuAudit, MenuBrands, MenuCategories>>
    /\ navMenus = <<MenuAudit, MenuBrands>>

\* ---------------------------------------------------------------- C25

\* What fetchUserPrivilegesForRoles returns for the first k roles of the list,
\* given the answers their fetches settled with.
MergedFromFirst(k) ==
    mergedResult([j \in 1..k |-> fetchRolePrivileges(roleAnswers[j])])

\* The module keys of the answers differ in nothing but the roles that send
\* them: no two keys are spellings of one another.
OneSpellingPerModule ==
    \A i, j \in 1..Len(roleAnswers) :
        \A e \in 1..Len(roleAnswers[i].privileges), f \in 1..Len(roleAnswers[j].privileges) :
            toLowerCase(roleAnswers[i].privileges[e].module)
                = toLowerCase(roleAnswers[j].privileges[f].module)
            => roleAnswers[i].privileges[e].module = roleAnswers[j].privileges[f].module

\* C25: granting is monotone in the role list.  What canPerformAction grants
\* on the set merged from the first k roles, it grants on the set merged from
\* the whole list, whatever the letter case of the roles' module keys.
C25_MonotoneInRoles ==
    Merged =>
        \A k \in 1..Len(roleAnswers), moduleName \in ModuleLabels, action \in Actions :
            canPerformAction(MergedFromFirst(k), moduleName, action)
            => canPerformAction(privileges, moduleName, action)

\* The same, for roles whose module keys are spelled alike.
C25_MonotoneWhenSpelledAlike ==
    (Merged /\ OneSpellingPerModule) =>
        \A k \in 1..Len(roleAnswers), moduleName \in ModuleLabels, action \in Actions :
            canPerformAction(MergedFromFirst(k), moduleName, action)
            => canPerformAction(privileges, moduleName, action)

\* A second role adds grants to those of the first.
C25_WitnessSpelledAlike ==
    /\ Merged
    /\ OneSpellingPerModule
    /\ Len(roleAnswers) = 2
    /\ canPerformAction(MergedFromFirst(1), <<"B", "r", "a", "n", "d", "s">>, Read)
    /\ ~canPerformAction(MergedFromFirst(1), <<"B", "r", "a", "n", "d", "s">>,
                         <<"c", "r", "e", "a", "t", "e">>)
    /\ canPerformAction(privileges, <<"B", "r", "a", "n", "d", "s">>,
                        <<"c", "r", "e", "a", "t", "e">>)

\* ---------------------------------------------------------------- C26

\* C26: whenever the context's user is null, its privileges and menus are
\* empty and its isSuperAdmin flag is false, in every reachable state, calls of
\* fetchUser and logout overlapping or not.
C26_NullUserHasNothing ==
    (pc = "ctx_live" /\ user = NoUser) =>
        /\ privileges = EmptyPrivileges
        /\ menus = <<>>
        /\ ~isSuperAdminState

\* Every step that makes the user null empties the privileges and the menus and
\* lowers the flag.
C26_ClearedWhenUserBecomesNull ==
    [][(user # NoUser /\ user' = NoUser) =>
           (privileges' = EmptyPrivileges /\ menus' = <<>> /\ ~isSuperAdminState')]_vars

\* Privileges land in the context after the logout that emptied it.
C26_StalePrivilegesAfterLogout ==
    /\ pc = "ctx_live"
    /\ user = NoUser
    /\ inflight = {}
    /\ privileges # EmptyPrivileges
    /\ menus # <<>>

\* ---------------------------------------------------------------- C28

\* C28: in every state of the context with no call in flight, the isSuperAdmin
\* flag is true exactly when the privileges are the wildcard set, whether the
\* wildcard came from the email allow-list or from a super-admin role code.
C28_FlagIffWildcard ==
    (pc = "ctx_live" /\ inflight = {}) =>
        (isSuperAdminState <=> privileges = WildcardPrivileges)

\* The single call of fetchUser of a user whose role maps to ADMIN has
\* returned: the wildcard is stored and the flag is false.
C28_RoleWildcardUnflagged ==
    /\ pc = "ctx_live"
    /\ inflight = {}
    /\ started = 1
    /\ user = [email |-> TeacherEmail, roles |-> <<RoleEditor>>]
    /\ privileges = WildcardPrivileges
    /\ ~isSuperAdminState

\* The flag of a context at rest after a single call of fetchUser tells
\* whether the user's email is allow-listed.
C28_FlagIffEmailAllowListed ==
    (pc = "ctx_live" /\ inflight = {} /\ started = 1) =>
        (isSuperAdminState <=>
            (~Missing(user.email) /\ isSuperAdminByEmail(user.email, allowListEnv)))

\* ---------------------------------------------------------------- C27

\* The cookie pair the refresh response of invocation i leaves in a browser
\* that sent it the refresh token rt.
PairIssuedBy(i) ==
    [token |-> gates[i].refreshed.body.access_token,
     refresh_token |-> IF Falsy(gates[i].refreshed.body.refresh_token)
                       THEN gates[i].refreshToken
                       ELSE gates[i].refreshed.body.refresh_token]

RefreshSucceeded(i) ==
    /\ gates[i].pc \in {"gate_done", "answered"}
    /\ ~attemptTokenRefresh(gates[i].refreshed).isNull

\* C27: across the invocations of the gate for one session, a refresh token
\* value is posted to the refresh endpoint at most once, and once every
\* response has arrived the browser's cookie pair is the pair issued by one
\* refresh response.
C27_RefreshTokenExchangedOnce ==
    pc = "session" =>
        /\ \A k, l \in 1..Len(exchanges) : exchanges[k] = exchanges[l] => k = l
        /\ ((\A i \in 1..Invocations : gates[i].pc = "answered")
            /\ (\E i \in 1..Invocations : RefreshSucceeded(i))
            /\ (\A i \in 1..Invocations : gates[i].response.kind = "next"))
           => \E i \in 1..Invocations : RefreshSucceeded(i) /\ jar = PairIssuedBy(i)

\* Each invocation posts the refresh token its request carried, at most once.
C27_OneExchangePerInvocation ==
    pc = "session" =>
        /\ Len(exchanges) <= Cardinality({i \in 1..Invocations :
                                            gates[i].pc \in {"refreshing", "gate_done", "answered"}})
        /\ \A k \in 1..Len(exchanges) :
               \E i \in 1..Invocations : gates[i].refreshToken = exchanges[k]

\* Two invocations carried the same cookies and both exchanged the refresh
\* token; the browser is left with the access token of one answer and the
\* refresh token of the other.
C27_ExchangedTwice ==
    /\ pc = "session"
    /\ exchanges = <<"ref-old", "ref-old">>
    /\ \A i \in 1..Invocations : gates[i].pc = "answered"
    /\ jar = [token |-> "tok-new-2", refresh_token |-> "ref-new-1"]

\* ---------------------------------------------------------------- C29

\* The entries of the allow-list value, as written between the commas.
WrittenEntries ==
    LET pieces == splitCommas(IF Missing(allowListEnv) THEN <<>> ELSE allowListEnv)
    IN {trim(pieces[i]) : i \in 1..Len(pieces)}

MatchesNonEmptyEntry(email) ==
    \E entry \in WrittenEntries :
        entry # <<>> /\ toLowerCase(entry) = toLowerCase(email)

\* C29: isSuperAdminByEmail(e) is true only if e equals, whatever the letter
\* case, a non-empty entry of the allow-list; with the variable unset or empty
\* it is false for every string, the empty string included.
C29_OnlyNonEmptyEntries ==
    (pc = "email" /\ emailCheck.clientAsked) =>
        /\ emailCheck.client => MatchesNonEmptyEntry(emailCheck.email)
        /\ Missing(allowListEnv) => ~emailCheck.client

\* The same for the emails that are not the empty string.
C29_NonEmptyEmails ==
    (pc = "email" /\ emailCheck.clientAsked /\ emailCheck.email # <<>>) =>
        /\ emailCheck.client <=> MatchesNonEmptyEntry(emailCheck.email)
        /\ Missing(allowListEnv) => ~emailCheck.client

\* The empty string is accepted when the variable is not set.
C29_EmptyEmailAccepted ==
    /\ pc = "email"
    /\ allowListEnv = Undefined
    /\ emailCheck.clientAsked
    /\ emailCheck.email = <<>>
    /\ emailCheck.client

\* fetchUser asks about truthy emails only: a user without an email is left
\* with no privilege, whatever the allow-list and the roles.
C29_NoWildcardWithoutEmail ==
    (pc = "ctx_done" /\ Missing(user.email)) =>
        (privileges = EmptyPrivileges /\ ~isSuperAdminState)

\* ---------------------------------------------------------------- C30

\* C30: over the same allow-list value the gate marks a verified user's email
\* exactly when isSuperAdminByEmail accepts it.
C30_GateAgreesWithClient ==
    (pc = "email" /\ emailCheck.clientAsked /\ emailCheck.gateAsked) =>
        (emailCheck.gate <=> emailCheck.client)

\* Whoever the gate marks, the client accepts.
C30_GateMarksOnlyAccepted ==
    (pc = "email" /\ emailCheck.clientAsked /\ emailCheck.gateAsked) =>
        (emailCheck.gate => emailCheck.client)

\* An email written in another letter case than its entry: accepted by the
\* client, unmarked by the gate.
C30_CaseDisagreement ==
    /\ pc = "email"
    /\ emailCheck.clientAsked
    /\ emailCheck.gateAsked
    /\ emailCheck.email # <<>>
    /\ emailCheck.client
    /\ ~emailCheck.gate

====
